---------------------------- MODULE Spec2Model ----------------------------
(***************************************************************************)
(* The kernel-object signal and asynchronous wait engine of zircon-object  *)
(* (src/zircon-object/src/object/mod.rs): KObjectBase with its signal and  *)
(* its list of signal callbacks, and the wait_signal future polled by an   *)
(* executor, as a state machine.                                           *)
(*                                                                         *)
(* Every operation that takes the object's lock (signal, signal_change,    *)
(* add_signal_callback) is one atomic action.  A poll of the wait_signal   *)
(* future takes the lock twice (once in signal(), once in                  *)
(* add_signal_callback), so it is two actions and other actors may run in  *)
(* between.                                                                *)
(*                                                                         *)
(* No operation of KObjectBase touches another object than self, and a     *)
(* SignalFuture holds one object: the specifications of the object, of     *)
(* wait_signal and of send_signal_to_port_async hold one object and one    *)
(* task, and any number of other actors that change the signal.  Those of  *)
(* wait_signal_many hold two objects, each with its own lock.              *)
(*                                                                         *)
(* LockSpec takes the operations apart into call, lock acquisition, body   *)
(* and return, with the Mutex as state, to show what the atomic actions    *)
(* rest on.  CtorSpec builds objects from several threads, with new_koid   *)
(* as its own step.                                                        *)
(***************************************************************************)
EXTENDS Integers, Sequences, FiniteSets, TLC

(***************************************************************************)
(* Bounds of the model.                                                    *)
(***************************************************************************)
NBits == 2
MaxUserCallbacks == 2
MaxWaits == 2
MaxManyWaits == 1
MaxTargets == 2
MaxSends == 2

(***************************************************************************)
(* Signal: a bitmask, here the set of its asserted bits.                   *)
(***************************************************************************)
READABLE == "READABLE"
WRITABLE == "WRITABLE"
USER_SIGNAL_0 == "USER_SIGNAL_0"
USER_SIGNAL_1 == "USER_SIGNAL_1"
SignalBits == <<READABLE, WRITABLE, USER_SIGNAL_0, USER_SIGNAL_1>>
Bits == {SignalBits[i] : i \in 1..NBits}
Signal == SUBSET Bits
EMPTY == {}

Objs == {"O1"}
Tasks == {"T1"}

VARIABLES
    signal,            \* KObjectBaseInner.signal of each object
    signal_callbacks,  \* KObjectBaseInner.signal_callbacks of each object
    name,              \* KObjectBaseInner.name of each object
    id,                \* KObjectBase.id of each object
    KOID,              \* the static KOID of new_koid
    lock,              \* the Mutex around each object's KObjectBaseInner: who holds it
    future,            \* the SignalFuture each task awaits: object, signal, first;
                       \* or the arguments of its call of send_signal_to_port_async
    pc,                \* where each task's future, or call, is
    current_signal,    \* poll's local current_signal, between its two lock sections
    output,            \* the value of Poll::Ready
    runnable,          \* the task's waker was invoked (or it has a new future to poll)
    setter,            \* the other actor of the race: what it sets, and whether it did
    port,              \* the packets pushed to the port, in the order of the pushes
    seen,              \* history: the signals the objects had during a task's poll
    nextId,            \* history: identity of the next callback registered
    nwaits,            \* history: the number of calls the tasks have made
    nusers,            \* history: the number of handlers other callers registered
    retired,           \* history: the callbacks that have returned true
    lastOp,            \* history: the last operation, its inputs and its callback calls
    page_table,        \* the pages a GenericPageTable maps
    cont               \* the call of map_cont or unmap_cont under way, and its locals

vars == <<signal, signal_callbacks, name, id, KOID, lock, future, pc, current_signal,
          output, runnable, setter, port, seen, nextId, nwaits, nusers, retired, lastOp,
          page_table, cont>>

vmVars == <<page_table, cont>>
baseVars == <<name, id, KOID, lock, vmVars>>
objVars == <<signal, signal_callbacks, baseVars>>
taskVars == <<future, pc, current_signal, output>>

(***************************************************************************)
(* Callbacks.  A SignalHandler is a Box<dyn Fn(Signal) -> bool + Send>.    *)
(* kind "wait" is the closure SignalFuture::poll builds; kind "user" is    *)
(* any other handler a caller of add_signal_callback passes in: what it    *)
(* returns is up to it.                                                    *)
(***************************************************************************)
NoTask == "none"
NoObj == "none"

UserCallback(cid) == [id |-> cid, kind |-> "user", signal |-> EMPTY, task |-> NoTask]

WaitCallback(cid, t, target) == [id |-> cid, kind |-> "wait", signal |-> target, task |-> t]

\* Faulty variant of WaitClosure: the waker is invoked whatever the signal is.
WaitClosureAlwaysWakes(cb, s) ==
    IF (s \cap cb.signal) = {}
    THEN [ret |-> FALSE, wake |-> TRUE]
    ELSE [ret |-> TRUE, wake |-> TRUE]

\* Faulty variant of WaitClosure: the closure wakes and stays registered.
WaitClosureWakesAndStays(cb, s) ==
    IF (s \cap cb.signal) = {}
    THEN [ret |-> FALSE, wake |-> FALSE]
    ELSE [ret |-> FALSE, wake |-> TRUE]

\* Faulty variant of WaitClosure: any asserted bit counts, awaited or not.
WaitClosureOnAnyBit(cb, s) ==
    IF s = {}
    THEN [ret |-> FALSE, wake |-> FALSE]
    ELSE [ret |-> TRUE, wake |-> TRUE]

\* The closure of SignalFuture::poll called with s: what it returns, and
\* whether it calls waker.wake_by_ref().
WaitClosure(cb, s) ==
    IF (s \cap cb.signal) = {}
    THEN [ret |-> FALSE, wake |-> FALSE]
    ELSE [ret |-> TRUE, wake |-> TRUE]

PortCallback(cid, mask, key) ==
    [id |-> cid, kind |-> "port", signal |-> mask, task |-> NoTask, key |-> key]

\* Faulty variant of PortClosure: the closure pushes and stays registered.
PortClosureStays(cb, s) ==
    IF (s \cap cb.signal) = {}
    THEN [ret |-> FALSE, wake |-> FALSE, push |-> FALSE]
    ELSE [ret |-> FALSE, wake |-> FALSE, push |-> TRUE]

\* The closure of send_signal_to_port_async called with s: what it returns,
\* and whether it pushes its packet; it invokes no waker.
PortClosure(cb, s) ==
    IF (s \cap cb.signal) = {}
    THEN [ret |-> FALSE, wake |-> FALSE, push |-> FALSE]
    ELSE [ret |-> TRUE, wake |-> FALSE, push |-> TRUE]

\* What calling handler cb with s does; for a handler of another caller,
\* ret is what that handler returns this time.
Outcome(cb, s, ret) ==
    IF cb.kind = "wait" THEN WaitClosure(cb, s)
    ELSE IF cb.kind = "port"
         THEN [ret |-> PortClosure(cb, s).ret, wake |-> PortClosure(cb, s).wake]
    ELSE [ret |-> ret, wake |-> FALSE]

\* What calling handler cb with s may do.
Outcomes(cb, s) == {Outcome(cb, s, ret) : ret \in BOOLEAN}

\* The handlers of a list whose return value is their own choice.
Free(cbs) == {i \in 1..Len(cbs) : cbs[i].kind = "user"}

\* One call of a handler, as recorded in lastOp.
Call(cb, s, out) == [cb |-> cb, val |-> s, ret |-> out.ret, wake |-> out.wake]

(***************************************************************************)
(* signal_change                                                           *)
(***************************************************************************)
\* Faulty variant of ChangedSignal: set first, then clear.
ChangedSignalClearLast(old, clear, set) == (old \cup set) \ clear

\* Faulty variant of ChangedSignal: bits set by earlier calls do not persist.
ChangedSignalOnlySet(old, clear, set) == IF set # {} THEN set ELSE old \ clear

\* Faulty variant of ChangedSignal: set toggles the bits instead of inserting them.
ChangedSignalToggle(old, clear, set) == ((old \ clear) \ set) \cup (set \ (old \ clear))

\* inner.signal.remove(clear); inner.signal.insert(set);
ChangedSignal(old, clear, set) == (old \ clear) \cup set

\* Faulty variant of Unchanged: no early return.
UnchangedNever(new_signal, old_signal) == FALSE

\* if new_signal == old_signal { return; }
Unchanged(new_signal, old_signal) == new_signal = old_signal

\* Faulty variant of SweepValue: the handlers get the signal before the change.
SweepValueOld(old_signal, new_signal) == old_signal

\* The value retain hands to every handler: f(new_signal), the signal the
\* same lock section has just stored.
SweepValue(old_signal, new_signal) == new_signal

\* The calls Vec::retain makes: f(new_signal) for each element, in order.
RetainCalls(cbs, s, outs) == [i \in 1..Len(cbs) |-> Call(cbs[i], s, outs[i])]

\* Faulty variant of Retained: the test is inverted.
RetainedInverted(cbs, outs) ==
    LET F[i \in 0..Len(cbs)] ==
            IF i = 0 THEN <<>>
            ELSE IF outs[i].ret THEN Append(F[i-1], cbs[i]) ELSE F[i-1]
    IN F[Len(cbs)]

\* Faulty variant of Retained: nothing is removed.
RetainedAll(cbs, outs) == cbs

\* What signal_callbacks.retain(|f| !f(new_signal)) leaves, outs[i] being
\* the outcome of the call of cbs[i].
Retained(cbs, outs) ==
    LET F[i \in 0..Len(cbs)] ==
            IF i = 0 THEN <<>>
            ELSE IF ~outs[i].ret THEN Append(F[i-1], cbs[i]) ELSE F[i-1]
    IN F[Len(cbs)]

\* The tasks whose waker the calls invoked.
Woken(calls) == {calls[i].cb.task : i \in {j \in 1..Len(calls) : calls[j].wake}}

\* The callbacks whose call returned true.
ReturnedTrue(calls) == {calls[i].cb.id : i \in {j \in 1..Len(calls) : calls[j].ret}}

\* PortPacketRepr { key, status: ZxError::OK, data: PayloadRepr::Signal(
\* PacketSignal { trigger, observed, count: 1, timestamp: 0, _reserved1: 0 }) }
PortPacket(key, trigger, observed) ==
    [key |-> key, status |-> "OK", trigger |-> trigger, observed |-> observed,
     count |-> 1, timestamp |-> 0]

\* Port::push(packet): the packet joins the port's queue at its tail.
PortPush(queue, packet) == Append(queue, packet)

\* Faulty variant of Pushed: the calls are made from the last to the first.
PushedLastFirst(queue, calls) ==
    LET n == Len(calls)
        F[i \in 0..n] ==
            IF i = 0 THEN queue
            ELSE IF calls[n + 1 - i].cb.kind = "port"
                    /\ PortClosure(calls[n + 1 - i].cb, calls[n + 1 - i].val).push
                 THEN PortPush(F[i-1], PortPacket(calls[n + 1 - i].cb.key,
                                                  calls[n + 1 - i].cb.signal,
                                                  calls[n + 1 - i].val))
                 ELSE F[i-1]
    IN F[n]

\* The port after the calls, made in their order, of which those of the
\* closures of send_signal_to_port_async may push a packet.
Pushed(queue, calls) ==
    LET F[i \in 0..Len(calls)] ==
            IF i = 0 THEN queue
            ELSE IF calls[i].cb.kind = "port" /\ PortClosure(calls[i].cb, calls[i].val).push
                 THEN PortPush(F[i-1], PortPacket(calls[i].cb.key, calls[i].cb.signal,
                                                  calls[i].val))
                 ELSE F[i-1]
    IN F[Len(calls)]

\* sig, the signals of all objects at one instant, agrees with the signals
\* cur that a poll has read from its targets so far.
Agrees(sig, targets, cur) ==
    \A i \in 1..Len(cur) : sig[targets[i].object] = cur[i]

\* seen[t] holds the instants of the poll of wait_signal_many under way in
\* task t, each as the signals all objects had then, that agree with what the
\* poll has read so far; sig is one more instant.
SeenAlso(sig) ==
    [t \in DOMAIN seen |->
        IF pc[t] = "reading" /\ Agrees(sig, future[t].targets, current_signal[t])
        THEN seen[t] \cup {sig}
        ELSE seen[t]]

\* The record of one operation: its name, the object and the task, its inputs
\* (clear and set; for a poll, set is the awaited signal and first the future's
\* flag), the signal it read, the callback list it found, the handler calls it
\* made, and the callbacks that had returned true before it.
Op(opname, o, t, clear, set, old, before, calls, first) ==
    [op |-> opname, object |-> o, task |-> t, clear |-> clear, set |-> set,
     old |-> old, before |-> before, calls |-> calls, first |-> first,
     retired |-> retired]

\* Faulty variant of InnerSignal: the objects share one signal.
InnerSignalShared(sig, o, new_signal) == [x \in DOMAIN sig |-> new_signal]

\* inner.signal of self after the assignment, the objects' signals being sig:
\* the signal is a field of the object's own KObjectBaseInner.
InnerSignal(sig, o, new_signal) == [sig EXCEPT ![o] = new_signal]

\* KObjectBase::signal_change, called as operation `opname`.
SignalChangeAs(opname, o, clear, set) ==
    LET old_signal == signal[o]
        new_signal == ChangedSignal(old_signal, clear, set)
        cbs == signal_callbacks[o]
    IN  IF Unchanged(new_signal, old_signal)
        THEN /\ signal' = InnerSignal(signal, o, new_signal)
             /\ lastOp' = Op(opname, o, NoTask, clear, set, old_signal, cbs, <<>>, FALSE)
             /\ UNCHANGED <<signal_callbacks, baseVars, runnable, retired, port, seen>>
        ELSE \E T \in SUBSET Free(cbs) :
                LET val == SweepValue(old_signal, new_signal)
                    outs == [i \in 1..Len(cbs) |-> Outcome(cbs[i], val, i \in T)]
                    calls == RetainCalls(cbs, val, outs)
                IN  /\ signal' = InnerSignal(signal, o, new_signal)
                    /\ signal_callbacks' =
                           [signal_callbacks EXCEPT ![o] = Retained(cbs, outs)]
                    /\ runnable' = [t \in DOMAIN runnable |-> runnable[t] \/ t \in Woken(calls)]
                    /\ retired' = retired \cup ReturnedTrue(calls)
                    /\ port' = Pushed(port, calls)
                    /\ seen' = SeenAlso(signal')
                    /\ lastOp' = Op(opname, o, NoTask, clear, set, old_signal, cbs, calls, FALSE)
                    /\ UNCHANGED baseVars

signal_change(o, clear, set) ==
    /\ SignalChangeAs("signal_change", o, clear, set)
    /\ UNCHANGED <<taskVars, setter, nextId, nwaits, nusers>>

\* Faulty variant of SignalSetArgs: the two arguments are swapped.
SignalSetArgsSwapped(bits) == [clear |-> bits, set |-> EMPTY]

\* The arguments signal_set hands on: self.signal_change(Signal::empty(), signal)
SignalSetArgs(bits) == [clear |-> EMPTY, set |-> bits]

\* The arguments signal_clear hands on: self.signal_change(signal, Signal::empty())
SignalClearArgs(bits) == [clear |-> bits, set |-> EMPTY]

signal_set(o, bits) ==
    /\ SignalChangeAs("signal_set", o, SignalSetArgs(bits).clear, SignalSetArgs(bits).set)
    /\ UNCHANGED <<taskVars, setter, nextId, nwaits, nusers>>

signal_clear(o, bits) ==
    /\ SignalChangeAs("signal_clear", o, SignalClearArgs(bits).clear,
                      SignalClearArgs(bits).set)
    /\ UNCHANGED <<taskVars, setter, nextId, nwaits, nusers>>

(***************************************************************************)
(* add_signal_callback                                                     *)
(***************************************************************************)
\* Faulty variant of EagerOutcomes: the callback is checked on Signal::empty().
EagerOutcomesOnEmpty(cb, s) == Outcomes(cb, EMPTY)

\* Faulty variant of EagerOutcomes: the callback is not checked at registration.
EagerOutcomesNone(cb, s) == {[ret |-> FALSE, wake |-> FALSE]}

\* callback(inner.signal), the check made at registration.
EagerOutcomes(cb, s) == Outcomes(cb, s)

\* Faulty variant of Stored: the callback is pushed whatever it returned.
StoredAlways(cbs, cb, out) == Append(cbs, cb)

\* Faulty variant of Stored: the callback is put at the head of the list.
StoredAtHead(cbs, cb, out) == IF ~out.ret THEN <<cb>> \o cbs ELSE cbs

\* if !callback(inner.signal) { inner.signal_callbacks.push(callback); }
Stored(cbs, cb, out) == IF ~out.ret THEN Append(cbs, cb) ELSE cbs

\* KObjectBase::add_signal_callback(callback), as operation `opname` of task t
\* (or of no task); when a poll makes the call, read is the signal the poll
\* read before and first the future's flag.
AddSignalCallbackAs(opname, o, cb, t, read, first) ==
    \E out \in EagerOutcomes(cb, signal[o]) :
        LET calls == <<Call(cb, signal[o], out)>>
        IN  /\ signal_callbacks' =
                   [signal_callbacks EXCEPT ![o] = Stored(signal_callbacks[o], cb, out)]
            /\ runnable' = [u \in DOMAIN runnable |-> runnable[u] \/ u \in Woken(calls)]
            /\ retired' = retired \cup ReturnedTrue(calls)
            /\ port' = Pushed(port, calls)
            /\ nextId' = nextId + 1
            /\ lastOp' = Op(opname, o, t, EMPTY, cb.signal, read,
                            signal_callbacks[o], calls, first)
            /\ UNCHANGED <<signal, baseVars, seen>>

\* A caller other than the futures registers a handler of its own.
add_signal_callback(o) ==
    /\ nusers < MaxUserCallbacks
    /\ AddSignalCallbackAs("add_signal_callback", o, UserCallback(nextId), NoTask,
                           signal[o], FALSE)
    /\ nusers' = nusers + 1
    /\ UNCHANGED <<taskVars, setter, nwaits>>

(***************************************************************************)
(* wait_signal and SignalFuture::poll                                      *)
(***************************************************************************)
NoFuture == [object |-> NoObj, signal |-> EMPTY, first |-> FALSE, inst |-> 0]

\* KernelObject::wait_signal(signal): task t builds a SignalFuture and awaits
\* it, so the executor polls it.
wait_signal(t, o, target) ==
    /\ pc[t] \in {"none", "ready", "sent"}
    /\ nwaits < MaxWaits
    /\ future' = [future EXCEPT ![t] =
                     [object |-> o, signal |-> target, first |-> TRUE, inst |-> nwaits + 1]]
    /\ pc' = [pc EXCEPT ![t] = "idle"]
    /\ current_signal' = [current_signal EXCEPT ![t] = EMPTY]
    /\ output' = [output EXCEPT ![t] = EMPTY]
    /\ runnable' = [runnable EXCEPT ![t] = TRUE]
    /\ nwaits' = nwaits + 1
    /\ lastOp' = Op("wait_signal", o, t, EMPTY, target, EMPTY, signal_callbacks[o],
                    <<>>, TRUE)
    /\ UNCHANGED <<objVars, setter, port, seen, nextId, nusers, retired>>

\* let current_signal = self.object.signal();
PollSignal(t) ==
    /\ pc[t] = "idle"
    /\ pc' = [pc EXCEPT ![t] = "polling"]
    /\ current_signal' = [current_signal EXCEPT ![t] = signal[future[t].object]]
    /\ runnable' = [runnable EXCEPT ![t] = FALSE]
    /\ lastOp' = Op("signal", future[t].object, t, EMPTY, future[t].signal,
                    signal[future[t].object], signal_callbacks[future[t].object],
                    <<>>, future[t].first)
    /\ UNCHANGED <<objVars, future, output, setter, port, seen, nextId, nwaits, nusers,
                   retired>>

\* The executor polls the future of a task whose waker was invoked.
poll(t) == runnable[t] /\ PollSignal(t)

\* The executor polls the future although nothing woke the task.
poll_spurious(t) == ~runnable[t] /\ PollSignal(t)

\* Faulty variant of PollBranch: the callback is registered before the signal is
\* looked at.
PollBranchRegisterFirst(cur, target, first) ==
    IF first THEN "register"
    ELSE IF (cur \cap target) # {} THEN "ready"
    ELSE "pending"

\* Faulty variant of PollBranch: the first flag does not guard the registration.
PollBranchRegisterAlways(cur, target, first) ==
    IF (cur \cap target) # {} THEN "ready"
    ELSE "register"

\* Faulty variant of PollBranch: the poll returns Ready whatever it read.
PollBranchReadyAlways(cur, target, first) == "ready"

\* The way the rest of poll goes once current_signal is read.
PollBranch(cur, target, first) ==
    IF (cur \cap target) # {} THEN "ready"
    ELSE IF first THEN "register"
    ELSE "pending"

\* The rest of SignalFuture::poll, from the test of current_signal to return.
poll_return(t) ==
    LET f == future[t]
        o == f.object
        branch == PollBranch(current_signal[t], f.signal, f.first)
    IN  /\ pc[t] = "polling"
        /\ \/ /\ branch = "ready"
              /\ pc' = [pc EXCEPT ![t] = "ready"]
              /\ output' = [output EXCEPT ![t] = current_signal[t]]
              /\ lastOp' = Op("poll", o, t, EMPTY, f.signal, current_signal[t],
                              signal_callbacks[o], <<>>, f.first)
              /\ UNCHANGED <<objVars, future, runnable, port, seen, nextId, retired>>
           \/ /\ branch = "register"
              /\ AddSignalCallbackAs("poll", o, WaitCallback(nextId, t, f.signal), t,
                                     current_signal[t], f.first)
              /\ future' = [future EXCEPT ![t].first = FALSE]
              /\ pc' = [pc EXCEPT ![t] = "idle"]
              /\ UNCHANGED output
           \/ /\ branch = "pending"
              /\ pc' = [pc EXCEPT ![t] = "idle"]
              /\ lastOp' = Op("poll", o, t, EMPTY, f.signal, current_signal[t],
                              signal_callbacks[o], <<>>, f.first)
              /\ UNCHANGED <<objVars, future, output, runnable, port, seen, nextId, retired>>
        /\ UNCHANGED <<current_signal, setter, nwaits, nusers>>

(***************************************************************************)
(* The specification: any callers, any interleaving.                       *)
(***************************************************************************)
\* static KOID: AtomicU64 = AtomicU64::new(1024);
FirstKoID == 1024

\* String::new(), the name Default gives.
NoName == <<>>

\* The objects os as KObjectBase::new() builds them one after the other, in
\* this order, from the first KoID on; nobody holds their locks.
\* No page table is in use.
NoVm == page_table = {} /\ cont = [pc |-> "none"]

Constructed(os) ==
    /\ name = [o \in {os[i] : i \in 1..Len(os)} |-> NoName]
    /\ id = [o \in {os[i] : i \in 1..Len(os)} |->
                FirstKoID + (CHOOSE i \in 1..Len(os) : os[i] = o) - 1]
    /\ KOID = FirstKoID + Len(os)
    /\ lock = [o \in {os[i] : i \in 1..Len(os)} |-> NoTask]

NoSetter == [pc |-> "off", object |-> NoObj, bits |-> EMPTY]

InitOp == [op |-> "init", object |-> NoObj, task |-> NoTask, clear |-> EMPTY,
           set |-> EMPTY, old |-> EMPTY, before |-> <<>>, calls |-> <<>>,
           first |-> FALSE, retired |-> {}]

\* KObjectBase::new() for every object, and no future yet.
Init ==
    /\ signal = [o \in Objs |-> EMPTY]
    /\ signal_callbacks = [o \in Objs |-> <<>>]
    /\ future = [t \in Tasks |-> NoFuture]
    /\ pc = [t \in Tasks |-> "none"]
    /\ current_signal = [t \in Tasks |-> EMPTY]
    /\ output = [t \in Tasks |-> EMPTY]
    /\ runnable = [t \in Tasks |-> FALSE]
    /\ setter = NoSetter
    /\ port = <<>>
    /\ seen = [t \in Tasks |-> {}]
    /\ nextId = 1
    /\ nwaits = 0
    /\ nusers = 0
    /\ retired = {}
    /\ lastOp = InitOp
    /\ NoVm
    /\ Constructed(<<"O1">>)

\* The object and its callback registry, under any callers.
Next ==
    \/ \E o \in Objs, clear \in Signal, set \in Signal : signal_change(o, clear, set)
    \/ \E o \in Objs, bits \in Signal : signal_set(o, bits)
    \/ \E o \in Objs, bits \in Signal : signal_clear(o, bits)
    \/ \E o \in Objs : add_signal_callback(o)

Spec == Init /\ [][Next]_vars

\* Tasks awaiting wait_signal on objects that other actors set and clear.
WaitNext ==
    \/ \E o \in Objs, bits \in Signal : signal_set(o, bits)
    \/ \E o \in Objs, bits \in Signal : signal_clear(o, bits)
    \/ \E t \in Tasks, o \in Objs, target \in Signal : wait_signal(t, o, target)
    \/ \E t \in Tasks : poll(t)
    \/ \E t \in Tasks : poll_spurious(t)
    \/ \E t \in Tasks : poll_return(t)

WaitSpec == Init /\ [][WaitNext]_vars

\* The executor polls a task whose waker was invoked, and a poll that has
\* begun returns.
ExecutorFairness ==
    \A t \in Tasks : WF_vars(poll(t)) /\ WF_vars(poll_return(t))

FairWaitSpec == WaitSpec /\ ExecutorFairness

(***************************************************************************)
(* The race of the first poll with one signal_set: a task awaits           *)
(* wait_signal(B) on an object while another actor calls signal_set(B) on  *)
(* it; further actors set any bits and clear bits other than B.            *)
(***************************************************************************)
RaceTask == "T1"

RaceInit ==
    \E o \in Objs, B \in Signal \ {EMPTY}, s \in Signal :
        /\ signal = [x \in Objs |-> IF x = o THEN s ELSE EMPTY]
        /\ signal_callbacks = [x \in Objs |-> <<>>]
        /\ future = [t \in Tasks |-> IF t = RaceTask
                                      THEN [object |-> o, signal |-> B, first |-> TRUE,
                                            inst |-> 1]
                                      ELSE NoFuture]
        /\ pc = [t \in Tasks |-> IF t = RaceTask THEN "idle" ELSE "none"]
        /\ current_signal = [t \in Tasks |-> EMPTY]
        /\ output = [t \in Tasks |-> EMPTY]
        /\ runnable = [t \in Tasks |-> t = RaceTask]
        /\ setter = [pc |-> "ready", object |-> o, bits |-> B]
        /\ port = <<>>
        /\ seen = [t \in Tasks |-> {}]
        /\ nextId = 1
        /\ nwaits = 1
        /\ nusers = 0
        /\ retired = {}
        /\ lastOp = InitOp
        /\ NoVm
        /\ Constructed(<<"O1">>)

\* The other actor's call: O.signal_set(B).
race_signal_set ==
    /\ setter.pc = "ready"
    /\ SignalChangeAs("signal_set", setter.object, EMPTY, setter.bits)
    /\ setter' = [setter EXCEPT !.pc = "done"]
    /\ UNCHANGED <<taskVars, nextId, nwaits, nusers>>

\* Another actor clears bits that are not among those awaited.
race_signal_clear(o, bits) ==
    /\ bits \cap setter.bits = {}
    /\ signal_clear(o, bits)

RaceNext ==
    \/ race_signal_set
    \/ \E o \in Objs, bits \in Signal : signal_set(o, bits)
    \/ \E o \in Objs, bits \in Signal : race_signal_clear(o, bits)
    \/ poll(RaceTask)
    \/ poll_return(RaceTask)

RaceSpec ==
    /\ RaceInit
    /\ [][RaceNext]_vars
    /\ WF_vars(race_signal_set)
    /\ WF_vars(poll(RaceTask))
    /\ WF_vars(poll_return(RaceTask))

(***************************************************************************)
(* tests::wait: the main task awaits wait_signal(READABLE) and then        *)
(* wait_signal(WRITABLE) on one object, while a spawned task sets and      *)
(* clears USER_SIGNAL_0, sets READABLE, meets the main task at a barrier   *)
(* and sets WRITABLE.  The sleep of the spawned task orders nothing: the   *)
(* two tasks interleave in any way.                                        *)
(***************************************************************************)
MainTask == "T1"
TestObject == "O1"

\* let object = DummyObject::new(); the spawned task is at its first call.
WaitTestInit ==
    /\ Init!1 /\ Init!2 /\ Init!3 /\ Init!4 /\ Init!5 /\ Init!6 /\ Init!7
    /\ setter = [pc |-> "set_user", object |-> TestObject, bits |-> {USER_SIGNAL_0}]
    /\ port = <<>>
    /\ seen = [t \in Tasks |-> {}]
    /\ nextId = 1
    /\ nwaits = 0
    /\ nusers = 0
    /\ retired = {}
    /\ lastOp = InitOp
    /\ NoVm
    /\ Constructed(<<"O1">>)

\* One signal call of the spawned task: from step `at` to step `to`.
SpawnedCall(at, to, opname, clear, set) ==
    /\ setter.pc = at
    /\ SignalChangeAs(opname, TestObject, clear, set)
    /\ setter' = [setter EXCEPT !.pc = to, !.bits = clear \cup set]
    /\ UNCHANGED <<taskVars, nextId, nwaits, nusers>>

\* object.signal_set(Signal::USER_SIGNAL_0);
spawned_set_user ==
    SpawnedCall("set_user", "clear_user", "signal_set", EMPTY, {USER_SIGNAL_0})

\* object.signal_clear(Signal::USER_SIGNAL_0);
spawned_clear_user ==
    SpawnedCall("clear_user", "set_readable", "signal_clear", {USER_SIGNAL_0}, EMPTY)

\* object.signal_set(Signal::READABLE);
spawned_set_readable ==
    SpawnedCall("set_readable", "barrier", "signal_set", EMPTY, {READABLE})

\* object.signal_set(Signal::WRITABLE);
spawned_set_writable ==
    SpawnedCall("set_writable", "done", "signal_set", EMPTY, {WRITABLE})

\* The record of a step at the barrier.
BarrierOp(t) ==
    Op("barrier", TestObject, t, EMPTY, EMPTY, signal[TestObject],
       signal_callbacks[TestObject], <<>>, FALSE)

\* barrier.wait().await of the spawned task: it arrives at the barrier.
spawned_barrier_wait ==
    /\ setter.pc = "barrier"
    /\ setter' = [setter EXCEPT !.pc = "at_barrier"]
    /\ lastOp' = BarrierOp(NoTask)
    /\ UNCHANGED <<objVars, taskVars, runnable, port, seen, nextId, nwaits, nusers,
                   retired>>

\* The spawned task leaves the barrier once the main task has arrived.
spawned_barrier_pass ==
    /\ setter.pc = "at_barrier"
    /\ \/ pc[MainTask] = "at_barrier"
       \/ pc[MainTask] = "none" /\ nwaits = 1
       \/ nwaits = 2
    /\ setter' = [setter EXCEPT !.pc = "set_writable"]
    /\ lastOp' = BarrierOp(NoTask)
    /\ UNCHANGED <<objVars, taskVars, runnable, port, seen, nextId, nwaits, nusers,
                   retired>>

\* barrier.wait().await of the main task, whose first wait has resolved: it
\* arrives at the barrier.
main_barrier_wait ==
    /\ pc[MainTask] = "ready" /\ nwaits = 1
    /\ pc' = [pc EXCEPT ![MainTask] = "at_barrier"]
    /\ lastOp' = BarrierOp(MainTask)
    /\ UNCHANGED <<objVars, future, current_signal, output, runnable, setter, port, seen,
                   nextId, nwaits, nusers, retired>>

\* The main task leaves the barrier once the spawned task has arrived.
main_barrier_pass ==
    /\ pc[MainTask] = "at_barrier"
    /\ setter.pc \in {"at_barrier", "set_writable", "done"}
    /\ pc' = [pc EXCEPT ![MainTask] = "none"]
    /\ lastOp' = BarrierOp(MainTask)
    /\ UNCHANGED <<objVars, future, current_signal, output, runnable, setter, port, seen,
                   nextId, nwaits, nusers, retired>>

\* let signal = object.wait_signal(Signal::READABLE).await;
main_wait_readable ==
    /\ nwaits = 0
    /\ wait_signal(MainTask, TestObject, {READABLE})

\* let signal = object.wait_signal(Signal::WRITABLE).await;
main_wait_writable ==
    /\ nwaits = 1 /\ pc[MainTask] = "none"
    /\ wait_signal(MainTask, TestObject, {WRITABLE})

WaitTestNext ==
    \/ spawned_set_user
    \/ spawned_clear_user
    \/ spawned_set_readable
    \/ spawned_set_writable
    \/ spawned_barrier_wait
    \/ spawned_barrier_pass
    \/ main_barrier_wait
    \/ main_barrier_pass
    \/ main_wait_readable
    \/ main_wait_writable
    \/ poll(MainTask)
    \/ poll_spurious(MainTask)
    \/ poll_return(MainTask)

\* Both tasks run: the spawned task makes its calls, the main task its awaits,
\* and the executor polls a woken task.
WaitTestFairness ==
    /\ WF_vars(spawned_set_user) /\ WF_vars(spawned_clear_user)
    /\ WF_vars(spawned_set_readable) /\ WF_vars(spawned_set_writable)
    /\ WF_vars(spawned_barrier_wait) /\ WF_vars(spawned_barrier_pass)
    /\ WF_vars(main_barrier_wait) /\ WF_vars(main_barrier_pass)
    /\ WF_vars(main_wait_readable) /\ WF_vars(main_wait_writable)
    /\ WF_vars(poll(MainTask)) /\ WF_vars(poll_return(MainTask))

WaitTestSpec == WaitTestInit /\ [][WaitTestNext]_vars /\ WaitTestFairness

(***************************************************************************)
(* A task abandons its wait_signal: it drops the SignalFuture between two  *)
(* polls.  SignalFuture holds the object and the signal and has no Drop of *)
(* its own, so dropping it calls nothing of the object.                    *)
(***************************************************************************)
\* Faulty variant of Dropped: the drop takes the task's callbacks off the list.
DroppedDeregisters(cbs, t) ==
    LET F[i \in 0..Len(cbs)] ==
            IF i = 0 THEN <<>>
            ELSE IF cbs[i].task # t THEN Append(F[i-1], cbs[i]) ELSE F[i-1]
    IN F[Len(cbs)]

\* The callback list of the object after task t has dropped its future.
Dropped(cbs, t) == cbs

\* Task t drops its future, polled at least once or not, and goes on.
drop_future(t) ==
    /\ pc[t] = "idle"
    /\ pc' = [pc EXCEPT ![t] = "dropped"]
    /\ signal_callbacks' =
           [o \in DOMAIN signal_callbacks |-> Dropped(signal_callbacks[o], t)]
    /\ lastOp' = Op("drop", future[t].object, t, EMPTY, future[t].signal,
                    signal[future[t].object], signal_callbacks[future[t].object],
                    <<>>, future[t].first)
    /\ UNCHANGED <<signal, baseVars, future, current_signal, output, runnable, setter,
                   port, seen, nextId, nwaits, nusers, retired>>

\* The signals set, cleared and awaited.
DropMasks == {{READABLE}, {WRITABLE}}

\* A task that waits, maybe twice, and may abandon a wait, on an object that
\* other actors set and clear.
DropNext ==
    \/ \E o \in Objs, bits \in DropMasks : signal_set(o, bits)
    \/ \E o \in Objs, bits \in DropMasks : signal_clear(o, bits)
    \/ \E t \in Tasks, o \in Objs, target \in DropMasks : wait_signal(t, o, target)
    \/ \E t \in Tasks : poll(t)
    \/ \E t \in Tasks : poll_spurious(t)
    \/ \E t \in Tasks : poll_return(t)
    \/ \E t \in Tasks : drop_future(t)

DropSpec == Init /\ [][DropNext]_vars

(***************************************************************************)
(* One caller applies the same signal_change(clear, set) twice in a row to *)
(* an object, from any signal the object may store; other callers register *)
(* callbacks meanwhile.                                                    *)
(***************************************************************************)
ChangeTwiceInit ==
    \E o \in Objs, s \in Signal, clear \in Signal, set \in Signal :
        /\ signal = [x \in Objs |-> IF x = o THEN s ELSE EMPTY]
        /\ Init!2 /\ Init!3 /\ Init!4 /\ Init!5 /\ Init!6 /\ Init!7
        /\ setter = [pc |-> "ready", object |-> o, clear |-> clear, set |-> set,
                     start |-> s, once |-> s]
        /\ port = <<>>
        /\ seen = [t \in Tasks |-> {}]
        /\ nextId = 1
        /\ nwaits = 0
        /\ nusers = 0
        /\ retired = {}
        /\ lastOp = InitOp
        /\ NoVm
        /\ Constructed(<<"O1">>)

\* The caller's first signal_change(clear, set).
first_signal_change ==
    /\ setter.pc = "ready"
    /\ SignalChangeAs("signal_change", setter.object, setter.clear, setter.set)
    /\ setter' = [setter EXCEPT !.pc = "once", !.once = signal'[setter.object]]
    /\ UNCHANGED <<taskVars, nextId, nwaits, nusers>>

\* The same call again, right after the first.
second_signal_change ==
    /\ setter.pc = "once"
    /\ SignalChangeAs("signal_change", setter.object, setter.clear, setter.set)
    /\ setter' = [setter EXCEPT !.pc = "twice"]
    /\ UNCHANGED <<taskVars, nextId, nwaits, nusers>>

ChangeTwiceNext ==
    \/ first_signal_change
    \/ second_signal_change
    \/ \E o \in Objs : add_signal_callback(o)

ChangeTwiceSpec == ChangeTwiceInit /\ [][ChangeTwiceNext]_vars

(***************************************************************************)
(* wait_signal_many and SignalManyFuture::poll.  The poll takes the lock   *)
(* of one target at a time: once per target to read its signal, and once   *)
(* per target to register its callback.                                    *)
(***************************************************************************)
ManyObjs == {"O1", "O2"}

\* One element of targets: &[(Arc<dyn KernelObject>, Signal)].
Target(o, s) == [object |-> o, signal |-> s]

\* The masks that other actors set and clear, and the target lists, of one
\* target and of two, that the callers of wait_signal_many pass.
ManyMasks == {{READABLE}, {WRITABLE}}

ManyTargets ==
    {<<Target("O1", {READABLE})>>,
     <<Target("O1", {READABLE}), Target("O2", {WRITABLE})>>,
     <<Target("O1", {READABLE}), Target("O2", {READABLE})>>}

\* wait_signal_many(targets): task t builds a SignalManyFuture and awaits it.
\* next is the position of the loop of registrations in the list of targets;
\* regs, history, counts the calls of add_signal_callback the future has made.
wait_signal_many(t, targets) ==
    /\ pc[t] \in {"none", "ready", "sent"}
    /\ nwaits < MaxManyWaits
    /\ future' = [future EXCEPT ![t] =
                     [targets |-> targets, first |-> TRUE, next |-> 1, regs |-> 0,
                      inst |-> nwaits + 1]]
    /\ pc' = [pc EXCEPT ![t] = "idle"]
    /\ current_signal' = [current_signal EXCEPT ![t] = <<>>]
    /\ output' = [output EXCEPT ![t] = <<>>]
    /\ runnable' = [runnable EXCEPT ![t] = TRUE]
    /\ seen' = [seen EXCEPT ![t] = {}]
    /\ nwaits' = nwaits + 1
    /\ lastOp' = Op("wait_signal_many", targets[1].object, t, EMPTY, EMPTY, EMPTY, <<>>,
                    <<>>, TRUE)
    /\ UNCHANGED <<objVars, setter, port, nextId, nusers, retired>>

\* The record of a step of the poll of task t on the object of target i.
ManyOp(opname, t, i, calls) ==
    LET o == future[t].targets[i].object
    IN  Op(opname, o, t, EMPTY, future[t].targets[i].signal, signal[o],
           signal_callbacks[o], calls, future[t].first)

\* Faulty variant of TargetSignal: every entry is read from the first target.
TargetSignalOfFirst(sig, targets, i) == sig[targets[1].object]

\* |(obj, _)| obj.signal(), for target i, the objects' signals being sig.
TargetSignal(sig, targets, i) == sig[targets[i].object]

\* The poll begins: obj.signal() of the first target.
ManyPollSignal(t) ==
    /\ pc[t] = "idle"
    /\ pc' = [pc EXCEPT ![t] = "reading"]
    /\ current_signal' =
           [current_signal EXCEPT ![t] = <<TargetSignal(signal, future[t].targets, 1)>>]
    /\ runnable' = [runnable EXCEPT ![t] = FALSE]
    /\ seen' = [seen EXCEPT ![t] = {signal}]
    /\ lastOp' = ManyOp("signal", t, 1, <<>>)
    /\ UNCHANGED <<objVars, future, output, setter, port, nextId, nwaits, nusers, retired>>

\* The executor polls the future of a task whose waker was invoked.
poll_many(t) == runnable[t] /\ ManyPollSignal(t)

\* The executor polls the future although nothing woke the task.
poll_many_spurious(t) == ~runnable[t] /\ ManyPollSignal(t)

\* self.targets.iter().map(|(obj, _)| obj.signal()): the next target.
many_signal(t) ==
    LET i == Len(current_signal[t]) + 1
    IN  /\ pc[t] = "reading"
        /\ i <= Len(future[t].targets)
        /\ current_signal' =
               [current_signal EXCEPT ![t] =
                   Append(@, TargetSignal(signal, future[t].targets, i))]
        /\ seen' = [seen EXCEPT ![t] =
                        {sig \in @ : Agrees(sig, future[t].targets, current_signal'[t])}]
        /\ lastOp' = ManyOp("signal", t, i, <<>>)
        /\ UNCHANGED <<objVars, future, pc, output, runnable, setter, port, nextId,
                       nwaits, nusers, retired>>

\* Faulty variant of happened: every target must be satisfied.
happenedAll(targets, current_signals) ==
    \A i \in 1..Len(targets) : (current_signals[i] \cap targets[i].signal) # {}

\* SignalManyFuture::happened
happened(targets, current_signals) ==
    \E i \in 1..Len(targets) : (current_signals[i] \cap targets[i].signal) # {}

\* Faulty variant of ManyPollBranch: a later poll returns Ready whatever it read.
ManyPollBranchNoCheck(targets, current_signals, first) ==
    IF happened(targets, current_signals) THEN "ready"
    ELSE IF first THEN "register"
    ELSE "ready"

\* The way the rest of the poll goes once current_signals is collected.
ManyPollBranch(targets, current_signals, first) ==
    IF happened(targets, current_signals) THEN "ready"
    ELSE IF first THEN "register"
    ELSE "pending"

\* The poll after the reads: Poll::Ready(current_signals), or the loop of
\* registrations begins, or Poll::Pending.
many_collected(t) ==
    LET f == future[t]
        branch == ManyPollBranch(f.targets, current_signal[t], f.first)
    IN  /\ pc[t] = "reading"
        /\ Len(current_signal[t]) = Len(f.targets)
        /\ \/ /\ branch = "ready"
              /\ pc' = [pc EXCEPT ![t] = "ready"]
              /\ output' = [output EXCEPT ![t] = current_signal[t]]
              /\ UNCHANGED <<future, seen>>
           \/ /\ branch = "register"
              /\ pc' = [pc EXCEPT ![t] = "registering"]
              /\ future' = [future EXCEPT ![t].next = 1]
              /\ seen' = [seen EXCEPT ![t] = {}]
              /\ UNCHANGED output
           \/ /\ branch = "pending"
              /\ pc' = [pc EXCEPT ![t] = "idle"]
              /\ seen' = [seen EXCEPT ![t] = {}]
              /\ UNCHANGED <<future, output>>
        /\ lastOp' = ManyOp("poll_many", t, 1, <<>>)
        /\ UNCHANGED <<objVars, current_signal, runnable, setter, port, nextId, nwaits,
                       nusers, retired>>

\* Faulty variant of ManyRegisterLast: the loop stops after the first target.
ManyRegisterLastFirst(targets, i) == TRUE

\* for (object, signal) in self.targets.iter(): target i is the last one.
ManyRegisterLast(targets, i) == i = Len(targets)

\* object.add_signal_callback(..) for the next target of the loop; after the
\* last one, self.first = false and Poll::Pending.
many_register(t) ==
    LET f == future[t]
        i == f.next
        o == f.targets[i].object
    IN  /\ pc[t] = "registering"
        /\ AddSignalCallbackAs("poll_many", o, WaitCallback(nextId, t, f.targets[i].signal),
                               t, current_signal[t][i], f.first)
        /\ IF ManyRegisterLast(f.targets, i)
           THEN /\ future' = [future EXCEPT ![t].first = FALSE, ![t].regs = @ + 1]
                /\ pc' = [pc EXCEPT ![t] = "idle"]
           ELSE /\ future' = [future EXCEPT ![t].next = i + 1, ![t].regs = @ + 1]
                /\ UNCHANGED pc
        /\ UNCHANGED <<current_signal, output, setter, nwaits, nusers>>

NoManyFuture == [targets |-> <<>>, first |-> FALSE, next |-> 1, regs |-> 0, inst |-> 0]

\* DummyObject::new() for both objects, and no future yet.
ManyInit ==
    /\ signal = [o \in ManyObjs |-> EMPTY]
    /\ signal_callbacks = [o \in ManyObjs |-> <<>>]
    /\ future = [t \in Tasks |-> NoManyFuture]
    /\ pc = [t \in Tasks |-> "none"]
    /\ current_signal = [t \in Tasks |-> <<>>]
    /\ output = [t \in Tasks |-> <<>>]
    /\ runnable = [t \in Tasks |-> FALSE]
    /\ setter = NoSetter
    /\ port = <<>>
    /\ seen = [t \in Tasks |-> {}]
    /\ nextId = 1
    /\ nwaits = 0
    /\ nusers = 0
    /\ retired = {}
    /\ lastOp = InitOp
    /\ NoVm
    /\ Constructed(<<"O1", "O2">>)

\* A task awaiting wait_signal_many on objects that other actors set and clear.
ManyNext ==
    \/ \E o \in ManyObjs, bits \in ManyMasks : signal_set(o, bits)
    \/ \E o \in ManyObjs, bits \in ManyMasks : signal_clear(o, bits)
    \/ \E t \in Tasks, targets \in ManyTargets : wait_signal_many(t, targets)
    \/ \E t \in Tasks : poll_many(t)
    \/ \E t \in Tasks : poll_many_spurious(t)
    \/ \E t \in Tasks : many_signal(t)
    \/ \E t \in Tasks : many_collected(t)
    \/ \E t \in Tasks : many_register(t)

ManySpec == ManyInit /\ [][ManyNext]_vars

\* The executor polls a task whose waker was invoked, and a poll that has
\* begun goes on to its return.
ManyExecutorFairness ==
    \A t \in Tasks :
        /\ WF_vars(poll_many(t))
        /\ WF_vars(many_signal(t))
        /\ WF_vars(many_collected(t))
        /\ WF_vars(many_register(t))

FairManySpec == ManySpec /\ ManyExecutorFairness

(***************************************************************************)
(* tests::wait_many, to its first assertion: the main task awaits          *)
(* wait_signal_many on two objects while the spawned task sets READABLE on *)
(* the first one and goes to the barrier.  The second target awaits        *)
(* READABLE as in the test, or WRITABLE.                                   *)
(***************************************************************************)
WaitManyTestTargets ==
    {<<Target("O1", {READABLE}), Target("O2", {READABLE})>>,
     <<Target("O1", {READABLE}), Target("O2", {WRITABLE})>>}

\* let objs = [DummyObject::new(), DummyObject::new()]; the spawned task is at
\* its first call.
WaitManyTestInit ==
    /\ ManyInit!1 /\ ManyInit!2 /\ ManyInit!3 /\ ManyInit!4 /\ ManyInit!5
    /\ ManyInit!6 /\ ManyInit!7
    /\ setter = [pc |-> "set_readable", object |-> TestObject, bits |-> {READABLE}]
    /\ port = <<>>
    /\ seen = [t \in Tasks |-> {}]
    /\ nextId = 1
    /\ nwaits = 0
    /\ nusers = 0
    /\ retired = {}
    /\ lastOp = InitOp
    /\ NoVm
    /\ Constructed(<<"O1", "O2">>)

\* let signals = wait_signal_many(&[(obj0.clone(), ..), (obj1.clone(), ..)]).await;
main_wait_many ==
    /\ nwaits = 0
    /\ \E targets \in WaitManyTestTargets : wait_signal_many(MainTask, targets)

WaitManyTestNext ==
    \/ spawned_set_readable
    \/ spawned_barrier_wait
    \/ main_wait_many
    \/ poll_many(MainTask)
    \/ poll_many_spurious(MainTask)
    \/ many_signal(MainTask)
    \/ many_collected(MainTask)
    \/ many_register(MainTask)

WaitManyTestFairness ==
    /\ WF_vars(spawned_set_readable)
    /\ WF_vars(main_wait_many)
    /\ WF_vars(poll_many(MainTask)) /\ WF_vars(many_signal(MainTask))
    /\ WF_vars(many_collected(MainTask)) /\ WF_vars(many_register(MainTask))

WaitManyTestSpec == WaitManyTestInit /\ [][WaitManyTestNext]_vars /\ WaitManyTestFairness

(***************************************************************************)
(* send_signal_to_port_async: the call reads the object's signal, and then *)
(* pushes a packet to the port or registers a callback that will.          *)
(***************************************************************************)
\* let current_signal = self.signal(); task t begins the call, whose key is
\* the number of the call.
send_signal_to_port_async(t, o, mask) ==
    /\ pc[t] \in {"none", "sent", "ready"}
    /\ nwaits < MaxSends
    /\ future' = [future EXCEPT ![t] =
                     [object |-> o, signal |-> mask, key |-> nwaits + 1, first |-> FALSE,
                      inst |-> nwaits + 1]]
    /\ pc' = [pc EXCEPT ![t] = "sending"]
    /\ current_signal' = [current_signal EXCEPT ![t] = signal[o]]
    /\ nwaits' = nwaits + 1
    /\ lastOp' = Op("signal", o, t, EMPTY, mask, signal[o], signal_callbacks[o], <<>>, FALSE)
    /\ UNCHANGED <<objVars, output, runnable, setter, port, seen, nextId, nusers, retired>>

\* Faulty variant of SendBranch: no fast path, the callback is always registered.
SendBranchRegisterAlways(cur, mask) == "register"

\* if !(current_signal & signal).is_empty() { port.push(..); return; }
SendBranch(cur, mask) == IF (cur \cap mask) # {} THEN "push" ELSE "register"

\* The rest of send_signal_to_port_async, from the test of current_signal.
send_return(t) ==
    LET f == future[t]
        o == f.object
        branch == SendBranch(current_signal[t], f.signal)
    IN  /\ pc[t] = "sending"
        /\ \/ /\ branch = "push"
              /\ port' = PortPush(port, PortPacket(f.key, f.signal, current_signal[t]))
              /\ lastOp' = Op("send_signal_to_port_async", o, t, EMPTY, f.signal,
                              current_signal[t], signal_callbacks[o], <<>>, FALSE)
              /\ UNCHANGED <<objVars, runnable, seen, nextId, retired>>
           \/ /\ branch = "register"
              /\ AddSignalCallbackAs("send_signal_to_port_async", o,
                                     PortCallback(nextId, f.signal, f.key), t,
                                     current_signal[t], FALSE)
        /\ pc' = [pc EXCEPT ![t] = "sent"]
        /\ UNCHANGED <<future, current_signal, output, setter, nwaits, nusers>>

\* The masks the callers of send_signal_to_port_async pass, and the bits that
\* other actors set and clear.
PortMasks == {{READABLE}, {READABLE, WRITABLE}}

PortBits == {{READABLE}, {WRITABLE}}

\* Callers of send_signal_to_port_async on an object that other actors set
\* and clear.
PortNext ==
    \/ \E o \in Objs, bits \in PortBits : signal_set(o, bits)
    \/ \E o \in Objs, bits \in PortBits : signal_clear(o, bits)
    \/ \E t \in Tasks, o \in Objs, mask \in PortMasks :
           send_signal_to_port_async(t, o, mask)
    \/ \E t \in Tasks : send_return(t)

PortSpec == Init /\ [][PortNext]_vars

(***************************************************************************)
(* Two objects under every kind of caller at once: a task that calls        *)
(* wait_signal, wait_signal_many and send_signal_to_port_async one after   *)
(* the other on either object, callers of add_signal_callback, and other    *)
(* actors that set and clear the signals.  Future::poll is dispatched on    *)
(* the type of the future the task awaits.                                  *)
(***************************************************************************)
\* The future of task t is a SignalFuture, not a SignalManyFuture.
IsSignalFuture(t) == "object" \in DOMAIN future[t]

\* The future of task t is a SignalManyFuture.
IsSignalManyFuture(t) == "targets" \in DOMAIN future[t]

\* The mask that the other actors set and clear and that the task waits for.
RegistryMasks == {{READABLE}}

\* The callers make at most MaxWaits registering calls between them.
MoreCalls == nusers + nwaits < MaxWaits

RegistryNext ==
    \/ \E o \in ManyObjs, bits \in RegistryMasks : signal_set(o, bits)
    \/ \E o \in ManyObjs, bits \in RegistryMasks : signal_clear(o, bits)
    \/ \E o \in ManyObjs : MoreCalls /\ add_signal_callback(o)
    \/ \E t \in Tasks, o \in ManyObjs, target \in RegistryMasks :
           MoreCalls /\ wait_signal(t, o, target)
    \/ \E t \in Tasks : IsSignalFuture(t) /\ poll(t)
    \/ \E t \in Tasks : IsSignalFuture(t) /\ poll_return(t)
    \/ \E t \in Tasks, targets \in ManyTargets :
           MoreCalls /\ wait_signal_many(t, targets)
    \/ \E t \in Tasks : IsSignalManyFuture(t) /\ poll_many(t)
    \/ \E t \in Tasks : IsSignalManyFuture(t) /\ many_signal(t)
    \/ \E t \in Tasks : IsSignalManyFuture(t) /\ many_collected(t)
    \/ \E t \in Tasks : IsSignalManyFuture(t) /\ many_register(t)
    \/ \E t \in Tasks, o \in ManyObjs, mask \in RegistryMasks :
           MoreCalls /\ send_signal_to_port_async(t, o, mask)
    \/ \E t \in Tasks : IsSignalFuture(t) /\ send_return(t)

RegistrySpec == ManyInit /\ [][RegistryNext]_vars

(***************************************************************************)
(* Construction of objects, and the operations of one lock section or of   *)
(* none.  Threads build objects concurrently; an object exists, under the  *)
(* next index, once its constructor has returned.  new_koid is one atomic  *)
(* fetch_add on the static KOID.                                           *)
(***************************************************************************)
MaxObjects == 3

Threads == {"A", "B"}

\* The names and the signals handed to the constructors and to the methods.
CtorNames == {<<"a">>}
CtorSignals == {{READABLE}}
NewNames == {<<"b">>}
NewBits == {{WRITABLE}}

NoCtor == [ctor |-> "none", n |-> NoName, s |-> EMPTY, completed |-> 0, id |-> 0]

\* String::from(name), name.clone(): a String of the same bytes.
StringFrom(n) == [i \in 1..Len(n) |-> n[i]]

\* KObjectBaseInner::default(), as #[derive(Default)] gives it.
DefaultInner == [name |-> NoName, signal |-> EMPTY, signal_callbacks |-> <<>>]

\* Faulty variant of WithInner: the signal is left to Default.
WithInnerNoSignal(n, s) ==
    [name |-> StringFrom(n), signal |-> DefaultInner.signal,
     signal_callbacks |-> DefaultInner.signal_callbacks]

\* KObjectBaseInner { name: String::from(name), signal, ..Default::default() }
WithInner(n, s) ==
    [name |-> StringFrom(n), signal |-> s,
     signal_callbacks |-> DefaultInner.signal_callbacks]

\* The inner state each constructor builds: new() is Self::default(),
\* with_signal(signal) is with(Default::default(), signal), with_name(name) is
\* with(name, Default::default()).
InnerOf(ctor, n, s) ==
    IF ctor = "new" THEN DefaultInner
    ELSE IF ctor = "with_signal" THEN WithInner(NoName, s)
    ELSE IF ctor = "with_name" THEN WithInner(n, EMPTY)
    ELSE WithInner(n, s)

\* Faulty variant of NewKoid: the counter is read but not advanced.
NewKoidNoAdd(k) == [id |-> k, next |-> k]

\* KOID.fetch_add(1, Ordering::SeqCst): the value before, and the counter after.
NewKoid(k) == [id |-> k, next |-> k + 1]

\* The constructions under way.
Building == {th \in DOMAIN pc : pc[th] \in {"new_koid", "build"}}

\* Thread th calls constructor ctor with name n and signal s.
CtorCall(th, ctor, n, s) ==
    /\ pc[th] = "none"
    /\ Len(id) + Cardinality(Building) < MaxObjects
    /\ pc' = [pc EXCEPT ![th] = "new_koid"]
    /\ future' = [future EXCEPT ![th] =
                     [ctor |-> ctor, n |-> n, s |-> s, completed |-> Len(id), id |-> 0]]
    /\ lastOp' = Op("call", NoObj, th, EMPTY, s, EMPTY, <<>>, <<>>, FALSE)
    /\ UNCHANGED <<objVars, current_signal, output, runnable, setter, port, seen, nextId,
                   nwaits, nusers, retired>>

new(th) == CtorCall(th, "new", NoName, EMPTY)

with_signal(th, s) == CtorCall(th, "with_signal", NoName, s)

with_name(th, n) == CtorCall(th, "with_name", n, EMPTY)

with(th, n, s) == CtorCall(th, "with", n, s)

\* id: Self::new_koid()
new_koid(th) ==
    /\ pc[th] = "new_koid"
    /\ pc' = [pc EXCEPT ![th] = "build"]
    /\ future' = [future EXCEPT ![th].id = NewKoid(KOID).id]
    /\ KOID' = NewKoid(KOID).next
    /\ lastOp' = Op("new_koid", NoObj, th, EMPTY, EMPTY, EMPTY, <<>>, <<>>, FALSE)
    /\ UNCHANGED <<vmVars, signal, signal_callbacks, name, id, lock, current_signal, output,
                   runnable, setter, port, seen, nextId, nwaits, nusers, retired>>

\* The record of a constructor's return: the constructor, the object built,
\* the arguments, and how many objects there were when it was called.
CtorOp(f, o, th) ==
    [n |-> f.n, completed |-> f.completed]
        @@ Op(f.ctor, o, th, EMPTY, f.s, EMPTY, <<>>, <<>>, FALSE)

\* The constructor returns the KObjectBase, its inner state in a new Mutex.
ctor_return(th) ==
    LET f == future[th]
        inner == InnerOf(f.ctor, f.n, f.s)
    IN  /\ pc[th] = "build"
        /\ pc' = [pc EXCEPT ![th] = "none"]
        /\ future' = [future EXCEPT ![th] = NoCtor]
        /\ id' = Append(id, f.id)
        /\ name' = Append(name, inner.name)
        /\ signal' = Append(signal, inner.signal)
        /\ signal_callbacks' = Append(signal_callbacks, inner.signal_callbacks)
        /\ lock' = Append(lock, NoTask)
        /\ lastOp' = CtorOp(f, Len(id) + 1, th)
        /\ UNCHANGED <<vmVars, KOID, current_signal, output, runnable, setter, port, seen, nextId,
                       nwaits, nusers, retired>>

\* The record of an operation that returns a value to its caller.
ResultOp(opname, o, result) ==
    [result |-> result]
        @@ Op(opname, o, NoTask, EMPTY, EMPTY, signal[o], signal_callbacks[o], <<>>, FALSE)

\* An operation that only returns a value.
Returns(opname, o, result) ==
    /\ lastOp' = ResultOp(opname, o, result)
    /\ UNCHANGED <<objVars, taskVars, runnable, setter, port, seen, nextId, nwaits,
                   nusers, retired>>

\* Faulty variant of SignalOf: the signal Default gives.
SignalOfDefault(o) == EMPTY

\* self.inner.lock().signal
SignalOf(o) == signal[o]

\* KObjectBase::signal()
get_signal(o) == Returns("signal", o, SignalOf(o))

\* KObjectBase::name(): self.inner.lock().name.clone()
get_name(o) == Returns("name", o, StringFrom(name[o]))

\* Faulty variant of NameSet: the name stays what it was.
NameSetKeeps(old, n) == old

\* .name = String::from(name)
NameSet(old, n) == StringFrom(n)

\* KObjectBase::set_name(name): self.inner.lock().name = String::from(name)
set_name(o, n) ==
    /\ name' = [name EXCEPT ![o] = NameSet(name[o], n)]
    /\ lastOp' = [n |-> n]
                    @@ Op("set_name", o, NoTask, EMPTY, EMPTY, signal[o],
                          signal_callbacks[o], <<>>, FALSE)
    /\ UNCHANGED <<vmVars, signal, signal_callbacks, id, KOID, lock, taskVars, runnable, setter,
                   port, seen, nextId, nwaits, nusers, retired>>

\* Signal::USER_ALL: the user signals, USER_SIGNAL_0 to USER_SIGNAL_7.
USER_ALL == {"USER_SIGNAL_0", "USER_SIGNAL_1", "USER_SIGNAL_2", "USER_SIGNAL_3",
             "USER_SIGNAL_4", "USER_SIGNAL_5", "USER_SIGNAL_6", "USER_SIGNAL_7"}

Err(e) == [err |-> e]

\* Faulty variant of DefaultGetChild: the error of peer.
DefaultGetChildNotSupported(child) == Err("NOT_SUPPORTED")

\* fn get_child(&self, _id: KoID) { Err(ZxError::WRONG_TYPE) }
DefaultGetChild(child) == Err("WRONG_TYPE")

\* fn peer(&self) { Err(ZxError::NOT_SUPPORTED) }
DefaultPeer(o) == Err("NOT_SUPPORTED")

\* fn related_koid(&self) -> KoID { 0 }
DefaultRelatedKoid(o) == 0

\* fn allowed_signals(&self) -> Signal { Signal::USER_ALL }
DefaultAllowedSignals(o) == USER_ALL

\* The KoIDs asked for: zero, an object's own, and one no object has.
ChildIds == {0} \cup {id[o] : o \in DOMAIN id} \cup {KOID}

\* The methods of KernelObject that an object such as DummyObject does not
\* override.
get_child(o, child) == Returns("get_child", o, DefaultGetChild(child))

peer(o) == Returns("peer", o, DefaultPeer(o))

related_koid(o) == Returns("related_koid", o, DefaultRelatedKoid(o))

allowed_signals(o) == Returns("allowed_signals", o, DefaultAllowedSignals(o))

CtorInit ==
    /\ signal = <<>>
    /\ signal_callbacks = <<>>
    /\ name = <<>>
    /\ id = <<>>
    /\ lock = <<>>
    /\ KOID = FirstKoID
    /\ future = [th \in Threads |-> NoCtor]
    /\ pc = [th \in Threads |-> "none"]
    /\ current_signal = [th \in Threads |-> EMPTY]
    /\ output = [th \in Threads |-> EMPTY]
    /\ runnable = [th \in Threads |-> FALSE]
    /\ setter = NoSetter
    /\ port = <<>>
    /\ seen = [th \in Threads |-> {}]
    /\ nextId = 1
    /\ nwaits = 0
    /\ nusers = 0
    /\ retired = {}
    /\ lastOp = InitOp
    /\ NoVm

\* Threads that build objects, each with any of the constructors.
CtorNext ==
    \/ \E th \in Threads : new(th)
    \/ \E th \in Threads, s \in CtorSignals : with_signal(th, s)
    \/ \E th \in Threads, n \in CtorNames : with_name(th, n)
    \/ \E th \in Threads, n \in CtorNames, s \in CtorSignals : with(th, n, s)
    \/ \E th \in Threads : new_koid(th)
    \/ \E th \in Threads : ctor_return(th)

CtorSpec == CtorInit /\ [][CtorNext]_vars

\* Callers of one object's methods, those that take its lock once and those
\* of KernelObject that it does not override.
MethodNext ==
    \/ \E o \in Objs : get_signal(o)
    \/ \E o \in Objs : get_name(o)
    \/ \E o \in Objs, n \in CtorNames \cup NewNames : set_name(o, n)
    \/ \E o \in Objs, bits \in CtorSignals \cup NewBits : signal_set(o, bits)
    \/ \E o \in Objs, bits \in CtorSignals \cup NewBits : signal_clear(o, bits)
    \/ \E o \in Objs : add_signal_callback(o)
    \/ \E o \in Objs, child \in ChildIds : get_child(o, child)
    \/ \E o \in Objs : peer(o)
    \/ \E o \in Objs : related_koid(o)
    \/ \E o \in Objs : allowed_signals(o)

MethodSpec == Init /\ [][MethodNext]_vars

(***************************************************************************)
(* The lock.  Every operation on an object's inner state begins with       *)
(* self.inner.lock() and keeps the guard until it returns.  Here the       *)
(* operations of two threads are taken apart into the call, the            *)
(* acquisition of the Mutex, the body and the return.                      *)
(***************************************************************************)
NoCall == [op |-> "none", object |-> NoObj, clear |-> EMPTY, set |-> EMPTY, n |-> NoName]

\* The calls the threads make.
LockCalls ==
    {[op |-> "signal", object |-> o, clear |-> EMPTY, set |-> EMPTY, n |-> NoName] :
        o \in Objs}
    \cup {[op |-> "name", object |-> o, clear |-> EMPTY, set |-> EMPTY, n |-> NoName] :
            o \in Objs}
    \cup {[op |-> "set_name", object |-> o, clear |-> EMPTY, set |-> EMPTY, n |-> n] :
            o \in Objs, n \in NewNames}
    \cup {[op |-> "signal_change", object |-> o, clear |-> c, set |-> b,
           n |-> NoName] : o \in Objs, c \in NewBits, b \in CtorSignals}
    \cup {[op |-> "signal_set", object |-> o, clear |-> SignalSetArgs(bits).clear,
           set |-> SignalSetArgs(bits).set, n |-> NoName] : o \in Objs, bits \in NewBits}
    \cup {[op |-> "signal_clear", object |-> o, clear |-> SignalClearArgs(bits).clear,
           set |-> SignalClearArgs(bits).set, n |-> NoName] : o \in Objs, bits \in NewBits}
    \cup {[op |-> "add_signal_callback", object |-> o, clear |-> EMPTY, set |-> EMPTY,
           n |-> NoName] : o \in Objs}

\* The calls of add_signal_callback that have not yet run their body.
Adding == {th \in DOMAIN pc : pc[th] \in {"lock", "locked"}
                                /\ future[th].op = "add_signal_callback"}

\* Thread th calls an operation; the first thing the operation does is
\* self.inner.lock().
op_call(th, call) ==
    /\ pc[th] = "none"
    /\ call.op = "add_signal_callback" => nusers + Cardinality(Adding) < MaxUserCallbacks
    /\ pc' = [pc EXCEPT ![th] = "lock"]
    /\ future' = [future EXCEPT ![th] = call]
    /\ lastOp' = Op("call", call.object, th, call.clear, call.set, EMPTY, <<>>, <<>>, FALSE)
    /\ UNCHANGED <<objVars, current_signal, output, runnable, setter, port, seen, nextId,
                   nwaits, nusers, retired>>

\* Mutex::lock returns its guard to th once nobody else holds the Mutex.
MutexLock(holder, th) == [free |-> holder = NoTask, holder |-> th]

\* self.inner.lock()
mutex_lock(th) ==
    LET o == future[th].object
    IN  /\ pc[th] = "lock"
        /\ MutexLock(lock[o], th).free
        /\ lock' = [lock EXCEPT ![o] = MutexLock(lock[o], th).holder]
        /\ pc' = [pc EXCEPT ![th] = "locked"]
        /\ lastOp' = Op("lock", o, th, EMPTY, EMPTY, EMPTY, <<>>, <<>>, FALSE)
        /\ UNCHANGED <<vmVars, signal, signal_callbacks, name, id, KOID, future, current_signal,
                       output, runnable, setter, port, seen, nextId, nwaits, nusers,
                       retired>>

\* The body of signal(): .signal
locked_signal(th) ==
    LET o == future[th].object
    IN  /\ pc[th] = "locked"
        /\ future[th].op = "signal"
        /\ pc' = [pc EXCEPT ![th] = "return"]
        /\ lastOp' = ResultOp("signal", o, SignalOf(o))
        /\ UNCHANGED <<objVars, future, current_signal, output, runnable, setter, port,
                       seen, nextId, nwaits, nusers, retired>>

\* The body of name(): .name.clone()
locked_name(th) ==
    LET o == future[th].object
    IN  /\ pc[th] = "locked"
        /\ future[th].op = "name"
        /\ pc' = [pc EXCEPT ![th] = "return"]
        /\ lastOp' = ResultOp("name", o, StringFrom(name[o]))
        /\ UNCHANGED <<objVars, future, current_signal, output, runnable, setter, port,
                       seen, nextId, nwaits, nusers, retired>>

\* The body of set_name(name): .name = String::from(name)
locked_set_name(th) ==
    LET o == future[th].object
    IN  /\ pc[th] = "locked"
        /\ future[th].op = "set_name"
        /\ pc' = [pc EXCEPT ![th] = "return"]
        /\ name' = [name EXCEPT ![o] = NameSet(name[o], future[th].n)]
        /\ lastOp' = [n |-> future[th].n]
                        @@ Op("set_name", o, NoTask, EMPTY, EMPTY, signal[o],
                              signal_callbacks[o], <<>>, FALSE)
        /\ UNCHANGED <<vmVars, signal, signal_callbacks, id, KOID, lock, future, current_signal,
                       output, runnable, setter, port, seen, nextId, nwaits, nusers,
                       retired>>

\* The body of signal_change, reached directly or from signal_set or
\* signal_clear, up to its return or its early return.
locked_signal_change(th) ==
    /\ pc[th] = "locked"
    /\ future[th].op \in {"signal_change", "signal_set", "signal_clear"}
    /\ pc' = [pc EXCEPT ![th] = "return"]
    /\ SignalChangeAs(future[th].op, future[th].object, future[th].clear, future[th].set)
    /\ UNCHANGED <<future, current_signal, output, setter, nextId, nwaits, nusers>>

\* The body of add_signal_callback.
locked_add_signal_callback(th) ==
    /\ pc[th] = "locked"
    /\ future[th].op = "add_signal_callback"
    /\ pc' = [pc EXCEPT ![th] = "return"]
    /\ AddSignalCallbackAs("add_signal_callback", future[th].object, UserCallback(nextId),
                           NoTask, signal[future[th].object], FALSE)
    /\ nusers' = nusers + 1
    /\ UNCHANGED <<future, current_signal, output, setter, nwaits>>

\* Faulty variant of GuardDropped: the guard outlives the operation.
GuardKept(holder) == holder

\* The Mutex once the operation's guard goes out of scope.
GuardDropped(holder) == NoTask

\* The operation returns, and its MutexGuard is dropped.
op_return(th) ==
    LET o == future[th].object
    IN  /\ pc[th] = "return"
        /\ lock' = [lock EXCEPT ![o] = GuardDropped(lock[o])]
        /\ pc' = [pc EXCEPT ![th] = "none"]
        /\ lastOp' = Op("return", o, th, EMPTY, EMPTY, EMPTY, <<>>, <<>>, FALSE)
        /\ UNCHANGED <<vmVars, signal, signal_callbacks, name, id, KOID, future, current_signal,
                       output, runnable, setter, port, seen, nextId, nwaits, nusers,
                       retired>>

LockInit ==
    /\ signal = [o \in Objs |-> EMPTY]
    /\ signal_callbacks = [o \in Objs |-> <<>>]
    /\ future = [th \in Threads |-> NoCall]
    /\ pc = [th \in Threads |-> "none"]
    /\ current_signal = [th \in Threads |-> EMPTY]
    /\ output = [th \in Threads |-> EMPTY]
    /\ runnable = [th \in Threads |-> FALSE]
    /\ setter = NoSetter
    /\ port = <<>>
    /\ seen = [th \in Threads |-> {}]
    /\ nextId = 1
    /\ nwaits = 0
    /\ nusers = 0
    /\ retired = {}
    /\ lastOp = InitOp
    /\ NoVm
    /\ Constructed(<<"O1">>)

\* Two threads that call the operations of one object.
LockNext ==
    \/ \E th \in Threads, call \in LockCalls : op_call(th, call)
    \/ \E th \in Threads : mutex_lock(th)
    \/ \E th \in Threads : locked_signal(th)
    \/ \E th \in Threads : locked_name(th)
    \/ \E th \in Threads : locked_set_name(th)
    \/ \E th \in Threads : locked_signal_change(th)
    \/ \E th \in Threads : locked_add_signal_callback(th)
    \/ \E th \in Threads : op_return(th)

LockSpec == LockInit /\ [][LockNext]_vars

(***************************************************************************)
(* kernel-hal: GenericPageTable::map_cont and unmap_cont, the provided     *)
(* methods of the trait, over a page table whose map and unmap are the     *)
(* implementor's.  Addresses are usize values far below usize::MAX, so the *)
(* additions of the two methods are exact.                                 *)
(***************************************************************************)
\* PageSize::Size4K = 0x1000
Size4K == 4096

\* PageSize::Size2M = 0x20_0000
Size2M == 2097152

\* PageSize::Size1G = 0x4000_0000
Size1G == 1073741824

\* PageSize::page_offset: addr & (self as usize - 1), the size being a power
\* of two.
page_offset(page_size, addr) == addr % page_size

\* PageSize::is_aligned
PageSizeIsAligned(page_size, addr) == page_offset(page_size, addr) = 0

\* crate::addr::is_aligned: addr is aligned to the (4K) page.
is_aligned(addr) == page_offset(Size4K, addr) = 0

\* PagingResult: Ok(v) or Err(e), e one of PagingError.
Ok(v) == [ok |-> v]

IsOk(r) == "ok" \in DOMAIN r

PagingError == {"NoMemory", "NotMapped", "AlreadyMapped"}

\* A mapped page: Page { vaddr, size } and the frame it maps to.
Mapping(vaddr, size, paddr) == [vaddr |-> vaddr, size |-> size, paddr |-> paddr]

\* The mapped page m holds the address addr.
Covers(m, addr) == m.vaddr <= addr /\ addr < m.vaddr + m.size

Overlap(m1, m2) == m1.vaddr < m2.vaddr + m2.size /\ m2.vaddr < m1.vaddr + m1.size

\* GenericPageTable::map(page, paddr, flags), the implementor's: what it may
\* return when the table maps the pages of `table`.
MapResults(table, page, paddr) ==
    (IF \E m \in table : Overlap(m, page)
     THEN {Err("AlreadyMapped")}
     ELSE {Ok(<<>>)}) \cup {Err("NoMemory")}

\* GenericPageTable::unmap(vaddr), the implementor's: it unmaps the page of
\* vaddr, whatever its size, and returns its frame and size.
UnmapResults(table, vaddr) ==
    (IF \E m \in table : Covers(m, vaddr)
     THEN {Ok(<<m.paddr, m.size>>) : m \in {x \in table : Covers(x, vaddr)}}
     ELSE {Err("NotMapped")}) \cup {Err("NoMemory"), Err("AlreadyMapped")}

\* The table once unmap(vaddr) has returned r.
Unmapped(table, vaddr, r) ==
    IF IsOk(r) THEN {m \in table : ~Covers(m, vaddr)} ELSE table

\* The call of map_cont or unmap_cont once its opening assertions passed;
\* table0, last and at are history: the table at the call, the result of the
\* last call of map or unmap, and the vaddr it was given.
Looping(op, start_vaddr, size, start_paddr, huge) ==
    [pc |-> "looping", op |-> op, start_vaddr |-> start_vaddr, size |-> size,
     start_paddr |-> start_paddr, huge |-> huge,
     vaddr |-> start_vaddr, paddr |-> start_paddr, end_vaddr |-> start_vaddr + size,
     result |-> Ok(<<>>), table0 |-> page_table, last |-> Ok(<<>>),
     at |-> start_vaddr]

\* assert!(..) failed: the call panics.
Panicked(c) == [c EXCEPT !.pc = "panicked"]

\* return r
Returned(c, r) == [c EXCEPT !.pc = "returned", !.result = r]

\* The three assertions that open map_cont.
MapContAsserts(start_vaddr, size, start_paddr) ==
    /\ is_aligned(start_vaddr)
    /\ is_aligned(start_vaddr)
    /\ is_aligned(size)

\* map_cont(start_vaddr, size, start_paddr, flags), huge being
\* flags.contains(MMUFlags::HUGE_PAGE): the assertions and the locals.
map_cont(start_vaddr, size, start_paddr, huge) ==
    /\ cont.pc = "none"
    /\ cont' = IF MapContAsserts(start_vaddr, size, start_paddr)
               THEN Looping("map_cont", start_vaddr, size, start_paddr, huge)
               ELSE Panicked(Looping("map_cont", start_vaddr, size, start_paddr, huge))
    /\ UNCHANGED <<page_table, signal, signal_callbacks, name, id, KOID, lock, taskVars,
                   runnable, setter, port, seen, nextId, nwaits, nusers, retired, lastOp>>

\* The page size map_cont picks for the next page.
MapPageSize(huge, remains, vaddr, paddr) ==
    IF ~huge THEN Size4K
    ELSE IF /\ remains >= Size1G
            /\ PageSizeIsAligned(Size1G, vaddr)
            /\ PageSizeIsAligned(Size1G, paddr)
         THEN Size1G
    ELSE IF /\ remains >= Size2M
            /\ PageSizeIsAligned(Size2M, vaddr)
            /\ PageSizeIsAligned(Size2M, paddr)
         THEN Size2M
    ELSE Size4K

\* One test of `while vaddr < end_vaddr` of map_cont and, if it holds, one
\* turn of the loop; self.map(page, paddr, flags)? returns the error at once.
map_cont_loop ==
    /\ cont.pc = "looping"
    /\ cont.op = "map_cont"
    /\ IF cont.vaddr < cont.end_vaddr
       THEN LET page_size == MapPageSize(cont.huge, cont.end_vaddr - cont.vaddr,
                                         cont.vaddr, cont.paddr)
                page == Mapping(cont.vaddr, page_size, cont.paddr)
            IN  \E r \in MapResults(page_table, page, cont.paddr) :
                    IF IsOk(r)
                    THEN /\ page_table' = page_table \cup {page}
                         /\ cont' = [cont EXCEPT !.vaddr = @ + page_size,
                                                 !.paddr = @ + page_size,
                                                 !.last = r, !.at = cont.vaddr]
                    ELSE /\ cont' = Returned([cont EXCEPT !.last = r,
                                                          !.at = cont.vaddr], r)
                         /\ UNCHANGED page_table
       ELSE /\ cont' = Returned(cont, Ok(<<>>))
            /\ UNCHANGED page_table
    /\ UNCHANGED <<signal, signal_callbacks, name, id, KOID, lock, taskVars,
                   runnable, setter, port, seen, nextId, nwaits, nusers, retired, lastOp>>

\* The two assertions that open unmap_cont.
UnmapContAsserts(start_vaddr, size) ==
    /\ is_aligned(start_vaddr)
    /\ is_aligned(size)

\* unmap_cont(start_vaddr, size): the assertions and the locals.
unmap_cont(start_vaddr, size) ==
    /\ cont.pc = "none"
    /\ cont' = IF UnmapContAsserts(start_vaddr, size)
               THEN Looping("unmap_cont", start_vaddr, size, 0, FALSE)
               ELSE Panicked(Looping("unmap_cont", start_vaddr, size, 0, FALSE))
    /\ UNCHANGED <<page_table, signal, signal_callbacks, name, id, KOID, lock, taskVars,
                   runnable, setter, port, seen, nextId, nwaits, nusers, retired, lastOp>>

\* Faulty variant of UnmapPageSize: the cursor advances by 4K whatever was
\* unmapped.
UnmapPageSizeAlways4K(r) == Size4K

\* let page_size = match self.unmap(vaddr) { .. }, for the results that do not
\* return: the size of the unmapped page, or 4K for Err(NotMapped).
UnmapPageSize(r) == IF IsOk(r) THEN r.ok[2] ELSE Size4K

\* One test of `while vaddr < end_vaddr` of unmap_cont and, if it holds, one
\* turn of the loop: self.unmap(vaddr), the assertion on the page's size,
\* the advance of vaddr and the assertion on vaddr.
unmap_cont_loop ==
    /\ cont.pc = "looping"
    /\ cont.op = "unmap_cont"
    /\ IF cont.vaddr < cont.end_vaddr
       THEN \E r \in UnmapResults(page_table, cont.vaddr) :
                LET c == [cont EXCEPT !.last = r, !.at = cont.vaddr]
                    next_vaddr == cont.vaddr + UnmapPageSize(r)
                IN  /\ page_table' = Unmapped(page_table, cont.vaddr, r)
                    /\ cont' =
                         IF IsOk(r) /\ ~PageSizeIsAligned(r.ok[2], cont.vaddr)
                         THEN Panicked(c)
                         ELSE IF ~IsOk(r) /\ r # Err("NotMapped")
                         THEN Returned(c, r)
                         ELSE IF ~(next_vaddr <= cont.end_vaddr)
                         THEN Panicked([c EXCEPT !.vaddr = next_vaddr])
                         ELSE [c EXCEPT !.vaddr = next_vaddr]
       ELSE /\ cont' = Returned(cont, Ok(<<>>))
            /\ UNCHANGED page_table
    /\ UNCHANGED <<signal, signal_callbacks, name, id, KOID, lock, taskVars,
                   runnable, setter, port, seen, nextId, nwaits, nusers, retired, lastOp>>

\* The pages a table may map at the call: 4K pages and huge pages, each
\* aligned to its size.
VmPages ==
    {Mapping(0, Size4K, 8 * Size2M),
     Mapping(Size4K, Size4K, 9 * Size2M),
     Mapping(Size2M, Size4K, 10 * Size2M),
     Mapping(0, Size2M, 12 * Size2M),
     Mapping(Size2M, Size2M, 14 * Size2M),
     Mapping(0, Size1G, Size1G)}

\* The contents of a page table: no two mapped pages overlap.
VmTables ==
    {table \in SUBSET VmPages :
        \A m1 \in table, m2 \in table : m1 # m2 => ~Overlap(m1, m2)}

\* The arguments of the calls of map_cont: aligned and not, with and without
\* MMUFlags::HUGE_PAGE; the large ranges with it.
MapContCalls ==
    [start_vaddr : {0, Size4K \div 2, Size2M - Size4K},
     size : {0, Size4K \div 2, Size4K, 2 * Size4K},
     start_paddr : {0, Size4K \div 2, Size4K, Size2M - Size4K},
     huge : BOOLEAN]
    \cup
    [start_vaddr : {0, Size2M - Size4K},
     size : {Size2M + 2 * Size4K},
     start_paddr : {0, Size4K \div 2, Size2M - Size4K},
     huge : {TRUE}]
    \cup
    [start_vaddr : {0},
     size : {Size1G + Size2M + Size4K},
     start_paddr : {0},
     huge : {TRUE}]

\* The arguments of the calls of unmap_cont: aligned and not.
UnmapContCalls ==
    [start_vaddr : {0, Size4K \div 2, Size4K, Size2M},
     size : {0, Size4K \div 2, Size4K, 2 * Size4K, Size2M, 2 * Size2M}]

\* A page table of any content, and no call yet; no kernel object.
VmInit ==
    /\ page_table \in VmTables
    /\ cont = [pc |-> "none"]
    /\ signal = <<>>
    /\ signal_callbacks = <<>>
    /\ name = <<>>
    /\ id = <<>>
    /\ lock = <<>>
    /\ KOID = FirstKoID
    /\ future = <<>>
    /\ pc = <<>>
    /\ current_signal = <<>>
    /\ output = <<>>
    /\ runnable = <<>>
    /\ setter = NoSetter
    /\ port = <<>>
    /\ seen = <<>>
    /\ nextId = 1
    /\ nwaits = 0
    /\ nusers = 0
    /\ retired = {}
    /\ lastOp = InitOp

VmNext ==
    \/ \E a \in MapContCalls : map_cont(a.start_vaddr, a.size, a.start_paddr, a.huge)
    \/ map_cont_loop
    \/ \E a \in UnmapContCalls : unmap_cont(a.start_vaddr, a.size)
    \/ unmap_cont_loop

VmSpec == VmInit /\ [][VmNext]_vars

\* The loop of a call under way goes on.
VmFairness == WF_vars(map_cont_loop) /\ WF_vars(unmap_cont_loop)

FairVmSpec == VmSpec /\ VmFairness

(***************************************************************************)
(* Properties                                                              *)
(***************************************************************************)
ChangeOps == {"signal_change", "signal_set", "signal_clear"}

Ids(cbs) == [i \in 1..Len(cbs) |-> cbs[i].id]

Increasing(ids) == \A i, j \in 1..Len(ids) : i < j => ids[i] < ids[j]

\* C1: signal_change(clear, set) leaves the stored signal equal to
\* (old & !clear) | set: a bit is set afterwards exactly when it is in set, or
\* was set before and is not in clear; so a bit in both clear and set ends set.
C1_SignalChangeResult ==
    lastOp.op \in ChangeOps =>
        \A b \in Bits :
            b \in signal[lastOp.object] <=>
                (b \in lastOp.set \/ (b \in lastOp.old /\ b \notin lastOp.clear))

\* A signal_change that clears a set bit for good while another bit is in both
\* clear and set.
C1_Witness ==
    /\ lastOp.op = "signal_change"
    /\ lastOp.clear \cap lastOp.set # {}
    /\ (lastOp.old \cap lastOp.clear) \ lastOp.set # {}
    /\ lastOp.clear \cap lastOp.set \subseteq signal[lastOp.object]

C3_SweepRetainsFalse ==
    (lastOp.op \in ChangeOps /\ signal[lastOp.object] # lastOp.old) =>
        /\ Len(lastOp.calls) = Len(lastOp.before)
        /\ \A i \in 1..Len(lastOp.calls) :
               /\ lastOp.calls[i].cb = lastOp.before[i]
               /\ lastOp.calls[i].val = signal[lastOp.object]
        /\ signal_callbacks[lastOp.object] =
               SelectSeq(lastOp.before,
                         LAMBDA c : \E i \in 1..Len(lastOp.calls) :
                                        /\ lastOp.calls[i].cb.id = c.id
                                        /\ ~lastOp.calls[i].ret)

\* A sweep over two callbacks of which the first returns true and the second
\* false.
C3_Witness ==
    /\ lastOp.op \in ChangeOps
    /\ signal[lastOp.object] # lastOp.old
    /\ Len(lastOp.calls) = 2
    /\ lastOp.calls[1].ret /\ ~lastOp.calls[2].ret
    /\ signal_callbacks[lastOp.object] = <<lastOp.before[2]>>

\* C4: add_signal_callback calls cb once, with the object's current signal,
\* and stores it only if that call returned false; no callback that has
\* returned true is in a callback list.
C4_EagerCheck ==
    /\ lastOp.op = "add_signal_callback" =>
           /\ Len(lastOp.calls) = 1
           /\ lastOp.calls[1].val = signal[lastOp.object]
           /\ lastOp.calls[1].ret =>
                  signal_callbacks[lastOp.object] = lastOp.before
           /\ ~lastOp.calls[1].ret =>
                  /\ Len(signal_callbacks[lastOp.object]) = Len(lastOp.before) + 1
                  /\ \E i \in 1..Len(signal_callbacks[lastOp.object]) :
                         signal_callbacks[lastOp.object][i] = lastOp.calls[1].cb
    /\ \A o \in Objs : \A i \in 1..Len(signal_callbacks[o]) :
           signal_callbacks[o][i].id \notin retired

\* An add_signal_callback whose callback returns true at once, on an object
\* that already has a callback.
C4_Witness ==
    /\ lastOp.op = "add_signal_callback"
    /\ lastOp.calls[1].ret
    /\ lastOp.before # <<>>

\* C5: a stored callback is appended at the tail, so the callbacks of a list
\* are in the order of their registration and every sweep calls them in
\* that order.
C5_FifoOrder ==
    /\ (lastOp.op = "add_signal_callback" /\ ~lastOp.calls[1].ret) =>
           signal_callbacks[lastOp.object] = Append(lastOp.before, lastOp.calls[1].cb)
    /\ \A o \in Objs : Increasing(Ids(signal_callbacks[o]))
    /\ Increasing([i \in 1..Len(lastOp.calls) |-> lastOp.calls[i].cb.id])

\* A second sweep over two callbacks: both returned false in a sweep before
\* and are called again, in the order of their registration.
C5_Witness ==
    /\ lastOp.op \in ChangeOps
    /\ Len(lastOp.calls) = 2
    /\ lastOp.calls[1].cb.id < lastOp.calls[2].cb.id
    /\ lastOp.old # {}
    /\ signal[lastOp.object] # {}

\* C6: a callback that has returned true, at its registration or in a sweep,
\* is never called again.
C6_NeverCalledAfterTrue ==
    \A i \in 1..Len(lastOp.calls) : lastOp.calls[i].cb.id \notin lastOp.retired

\* A sweep that calls a callback after an earlier-registered one has returned
\* true.
C6_Witness ==
    /\ lastOp.op \in ChangeOps
    /\ lastOp.calls # <<>>
    /\ \E i \in lastOp.retired : i < lastOp.calls[1].cb.id

\* The future of task t is unresolved / the signal of its object intersects
\* the signal it waits for.
Waiting(t) == pc[t] \in {"idle", "polling"}

Satisfied(t) == (signal[future[t].object] \cap future[t].signal) # {}

\* C7: no missed wakeup: a wait_signal(B) polled while another actor calls
\* signal_set(B), in any interleaving, resolves in the end, with a value that
\* intersects B.
C7_NoMissedWakeup ==
    <>(/\ pc[RaceTask] = "ready"
       /\ (output[RaceTask] \cap future[RaceTask].signal) # {})

\* The signal_set(B) landed between the poll's read of the signal and its
\* registration: the poll read a signal without B, and the callback, called at
\* registration, found B.
C7_Witness ==
    /\ setter.pc = "done"
    /\ lastOp.op = "poll" /\ lastOp.task = RaceTask
    /\ (lastOp.old \cap future[RaceTask].signal) = {}
    /\ Len(lastOp.calls) = 1
    /\ (lastOp.calls[1].val \cap future[RaceTask].signal) # {}
    /\ runnable[RaceTask]

\* C8: a wait_signal resumed while its signal is not there returns pending and
\* is still resolved later: it does not stay unresolved for ever once the
\* object's signal intersects the awaited one and stays so.
C8_ResolvedAfterSpuriousResumption ==
    \A t \in Tasks : []<>(~(Waiting(t) /\ Satisfied(t)))

\* C9: the callback wait_signal registers invokes the waker only when called
\* with a signal that intersects the awaited one; called with any other
\* signal it returns false, stays registered and does not invoke the waker.
C9_WakeOnlyOnTarget ==
    \A i \in 1..Len(lastOp.calls) :
        LET c == lastOp.calls[i]
        IN  c.cb.kind = "wait" =>
                /\ c.wake => (c.val \cap c.cb.signal) # {}
                /\ c.wake => runnable[c.cb.task]
                /\ (c.val \cap c.cb.signal) = {} =>
                       /\ ~c.ret
                       /\ ~c.wake
                       /\ \E j \in 1..Len(signal_callbacks[lastOp.object]) :
                              signal_callbacks[lastOp.object][j] = c.cb

\* A signal transition that calls the callback of a wait with a signal other
\* than the awaited one, while the task is not scheduled.
C9_Witness ==
    /\ lastOp.op \in ChangeOps
    /\ \E i \in 1..Len(lastOp.calls) :
           /\ lastOp.calls[i].cb.kind = "wait"
           /\ lastOp.calls[i].val # {}
           /\ (lastOp.calls[i].val \cap lastOp.calls[i].cb.signal) = {}
           /\ ~runnable[lastOp.calls[i].cb.task]

\* C10: a poll, first or later, that reads a signal intersecting the awaited
\* one returns Ready with the signal it read and registers no callback.
C10_ReadyWithObserved ==
    (lastOp.op = "poll" /\ (lastOp.old \cap lastOp.set) # {}) =>
        /\ pc[lastOp.task] = "ready"
        /\ output[lastOp.task] = lastOp.old
        /\ lastOp.calls = <<>>
        /\ signal_callbacks[lastOp.object] = lastOp.before

\* A poll after the first that returns Ready, with a signal that the object
\* has lost since the poll read it.
C10_Witness ==
    /\ lastOp.op = "poll"
    /\ ~lastOp.first
    /\ pc[lastOp.task] = "ready"
    /\ output[lastOp.task] # signal[lastOp.object]

\* C11: one wait_signal instance calls add_signal_callback at most once over
\* its life: a registration is made only by a poll of a future whose first is
\* true, it is one call, it sets first to false, and first does not become
\* true again in the same instance.
C11_RegistersAtMostOnce ==
    [][/\ nextId' # nextId =>
              /\ nextId' = nextId + 1
              /\ lastOp'.op = "poll"
              /\ Len(lastOp'.calls) = 1
              /\ future[lastOp'.task].first
              /\ ~future'[lastOp'.task].first
              /\ future'[lastOp'.task].inst = future[lastOp'.task].inst
       /\ \A t \in Tasks :
              (~future[t].first /\ future'[t].first) =>
                  future'[t].inst # future[t].inst]_vars

\* A later poll of a future that has registered its callback returns Pending
\* again, and the object holds the one callback of the first poll.
C11_Witness ==
    /\ lastOp.op = "poll"
    /\ ~lastOp.first
    /\ lastOp.calls = <<>>
    /\ pc[lastOp.task] = "idle"
    /\ Len(signal_callbacks[lastOp.object]) = 1
    /\ nextId = 2

\* The main task of tests::wait is in its first / second wait, resolved.
FirstWaitResolved == nwaits = 1 /\ pc[MainTask] = "ready"

SecondWaitResolved == nwaits = 2 /\ pc[MainTask] = "ready"

\* C12 (scenario A): the object starts empty and the main task is pending on
\* wait_signal(READABLE); signal_set(USER_SIGNAL_0) and
\* signal_clear(USER_SIGNAL_0) neither wake nor resolve it; the following
\* signal_set(READABLE) wakes it, and it resolves with READABLE.
C12_ScenarioA ==
    /\ [](setter.pc \in {"set_user", "clear_user", "set_readable"} =>
              pc[MainTask] # "ready")
    /\ []((/\ setter.pc \in {"clear_user", "set_readable"}
           /\ nwaits = 1 /\ ~future[MainTask].first) =>
              /\ ~runnable[MainTask]
              /\ pc[MainTask] \in {"idle", "polling"}
              /\ Len(signal_callbacks[TestObject]) = 1)
    /\ []((/\ lastOp.op = "signal_set" /\ lastOp.set = {READABLE}
           /\ lastOp.before # <<>>) =>
              /\ lastOp.calls[1].wake
              /\ runnable[MainTask])
    /\ [](FirstWaitResolved => output[MainTask] = {READABLE})
    /\ <>(FirstWaitResolved /\ output[MainTask] = {READABLE})

\* signal_clear(USER_SIGNAL_0) has called the callback of the pending main
\* task with the empty signal, after signal_set(USER_SIGNAL_0): the task is
\* neither woken nor polled.
C12_Witness ==
    /\ setter.pc = "set_readable"
    /\ lastOp.op = "signal_clear" /\ lastOp.old = {USER_SIGNAL_0}
    /\ Len(lastOp.calls) = 1 /\ ~lastOp.calls[1].wake
    /\ pc[MainTask] = "idle" /\ ~runnable[MainTask]
    /\ signal[TestObject] = EMPTY

\* C13 (scenario B): after the first wait has resolved with READABLE, the
\* second wait, wait_signal(WRITABLE), with signal_set(WRITABLE), resolves
\* with READABLE | WRITABLE.
C13_ScenarioB ==
    /\ [](SecondWaitResolved => output[MainTask] = {READABLE, WRITABLE})
    /\ <>(SecondWaitResolved /\ output[MainTask] = {READABLE, WRITABLE})

\* The second wait was pending when signal_set(WRITABLE) woke it, and its
\* next poll resolved it.
C13_Witness ==
    /\ SecondWaitResolved
    /\ lastOp.op = "poll" /\ ~lastOp.first
    /\ output[MainTask] = {READABLE, WRITABLE}

\* C14 (scenario C): both objects start empty; the first poll of
\* wait_signal_many([(O1, READABLE), (O2, WRITABLE)]) returns pending; after
\* O1.signal_set(READABLE) the wait is woken and resolves with
\* [READABLE, EMPTY].
C14_ScenarioC ==
    /\ [](setter.pc = "set_readable" => pc[MainTask] # "ready")
    /\ []((setter.pc = "set_readable" /\ nwaits = 1 /\ ~future[MainTask].first) =>
              /\ ~runnable[MainTask]
              /\ pc[MainTask] \in {"idle", "reading"}
              /\ Len(signal_callbacks["O1"]) = 1
              /\ Len(signal_callbacks["O2"]) = 1)
    /\ []((lastOp.op = "signal_set" /\ lastOp.before # <<>>) =>
              /\ lastOp.calls[1].wake
              /\ runnable[MainTask])
    /\ [](pc[MainTask] = "ready" => output[MainTask] = <<{READABLE}, EMPTY>>)
    /\ <>(pc[MainTask] = "ready" /\ output[MainTask] = <<{READABLE}, EMPTY>>)

\* The first poll has returned pending with a callback on each object, and
\* O1.signal_set(READABLE) has just woken the task.
C14_Witness ==
    /\ future[MainTask].targets = <<Target("O1", {READABLE}), Target("O2", {WRITABLE})>>
    /\ lastOp.op = "signal_set" /\ lastOp.object = "O1"
    /\ Len(lastOp.calls) = 1 /\ lastOp.calls[1].wake
    /\ Len(signal_callbacks["O2"]) = 1
    /\ ~future[MainTask].first /\ pc[MainTask] = "idle"
    /\ runnable[MainTask]

\* The number of targets of the future of task t, and whether the signal the
\* object of target i has now intersects the mask awaited from it.
NTargets(t) == Len(future[t].targets)

TargetSatisfied(t, i) ==
    (signal[future[t].targets[i].object] \cap future[t].targets[i].signal) # {}

\* C15: wait_signal_many over N targets resolves only with a vector of N
\* entries, entry i being the signal the poll read from target i, the reads
\* being made in the order of the targets; and when it resolves at least one
\* entry intersects the mask of its target.
C15_ManyShape ==
    \A t \in Tasks :
        /\ Len(current_signal[t]) <= NTargets(t)
        /\ (lastOp.op = "signal" /\ lastOp.task = t) =>
               /\ current_signal[t] # <<>>
               /\ lastOp.object = future[t].targets[Len(current_signal[t])].object
               /\ current_signal[t][Len(current_signal[t])] = lastOp.old
        /\ pc[t] = "ready" =>
               /\ Len(output[t]) = NTargets(t)
               /\ output[t] = current_signal[t]
               /\ \E i \in 1..NTargets(t) :
                      (output[t][i] \cap future[t].targets[i].signal) # {}

\* A later poll of a wait on two targets resolves through the second target
\* alone.
C15_Witness ==
    \E t \in Tasks :
        /\ pc[t] = "ready" /\ ~future[t].first
        /\ NTargets(t) = 2
        /\ (output[t][1] \cap future[t].targets[1].signal) = {}
        /\ (output[t][2] \cap future[t].targets[2].signal) # {}
        /\ output[t][1] # {}

\* C16: a pending wait_signal_many does not stay unresolved for ever once the
\* signal of one of its targets intersects the mask awaited from it and stays so:
\* the waker is invoked and the next poll resolves.
C16_ManyResolvesOnAny ==
    \A t \in Tasks : \A i \in 1..MaxTargets :
        []<>(~(/\ pc[t] \in {"idle", "reading", "registering"}
               /\ i <= NTargets(t)
               /\ TargetSatisfied(t, i)))

\* C17, as claimed: the vector wait_signal_many returns is the signals all
\* targets stored at one instant of the resolving poll.
C17_OneInstant ==
    \A t \in Tasks : pc[t] = "ready" => seen[t] # {}

\* C17, amended: entry i of the vector is the signal target i stored at the
\* instant the resolving poll read it, the targets being read one at a time.
C17_InstantPerEntry ==
    \A t \in Tasks :
        /\ (lastOp.op = "signal" /\ lastOp.task = t) =>
               LET i == Len(current_signal[t])
               IN  /\ i \in 1..NTargets(t)
                   /\ current_signal[t][i] = signal[future[t].targets[i].object]
        /\ pc[t] = "ready" => output[t] = current_signal[t]
        /\ (pc[t] = "ready" /\ NTargets(t) = 1) => seen[t] # {}

\* A wait on two targets has resolved with a vector that the two objects'
\* signals equalled at no instant of the poll.
C17_Witness ==
    \E t \in Tasks :
        /\ pc[t] = "ready"
        /\ NTargets(t) = 2
        /\ seen[t] = {}

\* C18: the first pending poll of wait_signal_many calls add_signal_callback
\* once for each target, on that target's object, and no later poll calls it;
\* and an operation on one object, such as the sweep in which the callback of
\* one target fires and retires, leaves the callback lists of the other
\* objects as they were.
C18_OneCallbackPerTarget ==
    [][/\ \A t \in Tasks :
              /\ ~future'[t].first /\ pc'[t] # "none" =>
                     future'[t].regs = NTargets(t)'
              /\ future'[t].first =>
                     future'[t].regs =
                         IF pc'[t] = "registering" THEN future'[t].next - 1 ELSE 0
              /\ nextId' # nextId =>
                     /\ nextId' = nextId + 1
                     /\ lastOp'.op = "poll_many"
                     /\ Len(lastOp'.calls) = 1
                     /\ future[lastOp'.task].first
                     /\ lastOp'.object =
                            future[lastOp'.task].targets[future[lastOp'.task].next].object
                     /\ lastOp'.calls[1].cb.signal =
                            future[lastOp'.task].targets[future[lastOp'.task].next].signal
                     /\ signal_callbacks'[lastOp'.object] =
                            IF lastOp'.calls[1].ret
                            THEN signal_callbacks[lastOp'.object]
                            ELSE Append(signal_callbacks[lastOp'.object],
                                        lastOp'.calls[1].cb)
       /\ \A o \in ManyObjs :
              signal_callbacks'[o] # signal_callbacks[o] => lastOp'.object = o]_vars

\* The callback of the first target has fired and retired in a sweep, and the
\* callback of the second target is still in its object's list.
C18_Witness ==
    \E t \in Tasks :
        /\ NTargets(t) = 2 /\ ~future[t].first /\ future[t].regs = 2
        /\ lastOp.op \in ChangeOps /\ lastOp.object = future[t].targets[1].object
        /\ Len(lastOp.calls) = 1 /\ lastOp.calls[1].ret /\ lastOp.calls[1].wake
        /\ signal_callbacks[future[t].targets[1].object] = <<>>
        /\ Len(signal_callbacks[future[t].targets[2].object]) = 1
        /\ signal_callbacks[future[t].targets[2].object][1].task = t

\* The packets of the port with key k, and the callbacks of object o with
\* key k.
PacketsOf(k) == {i \in 1..Len(port) : port[i].key = k}

StoredOf(o, k) ==
    {i \in 1..Len(signal_callbacks[o]) :
        signal_callbacks[o][i].kind = "port" /\ signal_callbacks[o][i].key = k}

\* C19 (port fast path): send_signal_to_port_async(mask, port, key) on an
\* object whose signal, read at the call, intersects mask has pushed one
\* packet when it returns, with key = key, status OK, trigger = mask,
\* observed = the signal read, count = 1 and timestamp 0, and has registered
\* no callback.
C19_PortFastPath ==
    (lastOp.op = "send_signal_to_port_async" /\ (lastOp.old \cap lastOp.set) # {}) =>
        LET t == lastOp.task
        IN  /\ pc[t] = "sent"
            /\ port # <<>>
            /\ port[Len(port)] =
                   [key |-> future[t].key, status |-> "OK", trigger |-> lastOp.set,
                    observed |-> lastOp.old, count |-> 1, timestamp |-> 0]
            /\ Cardinality(PacketsOf(future[t].key)) = 1
            /\ lastOp.calls = <<>>
            /\ signal_callbacks[lastOp.object] = lastOp.before
            /\ StoredOf(lastOp.object, future[t].key) = {}

\* A second call takes the fast path, on an object that holds the callback of
\* the first call and has lost, since the call read it, the signal observed.
C19_Witness ==
    /\ lastOp.op = "send_signal_to_port_async"
    /\ (lastOp.old \cap lastOp.set) # {}
    /\ lastOp.before # <<>>
    /\ Len(port) = 1
    /\ future[lastOp.task].key = 2
    /\ (signal[lastOp.object] \cap lastOp.set) = {}

NPushed ==
    IF lastOp.op = "send_signal_to_port_async" /\ lastOp.calls = <<>>
    THEN IF (lastOp.old \cap lastOp.set) # {} THEN 1 ELSE 0
    ELSE Cardinality({i \in 1..Len(lastOp.calls) :
                         /\ lastOp.calls[i].cb.kind = "port"
                         /\ (lastOp.calls[i].val \cap lastOp.calls[i].cb.signal) # {}})

\* C21: at the instant a packet is pushed to the port, the object's stored
\* signal equals the packet's observed field, on the fast path and on the
\* callback path.
C21_ObservedAtDelivery ==
    /\ NPushed <= Len(port)
    /\ \A i \in 1..Len(port) :
           i > Len(port) - NPushed => port[i].observed = signal[lastOp.object]

\* C22: per object, notifications follow mutation order. Every handler call
\* carries the signal the object stores at that instant; a call of
\* signal_change that changes the signal calls every registered callback once,
\* in list order, with the value it committed; and a step that leaves the
\* signal as it was calls no registered callback (only a registration's own
\* check of the new callback). So the values a callback is called with are, in
\* order, the values committed after its registration, none of them stale.
C22_MutationOrder ==
    [][LET o == lastOp'.object
           calls == lastOp'.calls
           cbs == signal_callbacks[o]
       IN  /\ \A i \in 1..Len(calls) : calls[i].val = signal'[o]
           /\ signal'[o] # signal[o] =>
                  /\ Len(calls) = Len(cbs)
                  /\ \A i \in 1..Len(calls) : calls[i].cb = cbs[i]
           /\ signal'[o] = signal[o] =>
                  \A i \in 1..Len(calls), j \in 1..Len(cbs) : calls[i].cb.id # cbs[j].id
           /\ \A x \in DOMAIN signal : x # o => signal'[x] = signal[x]]_vars

\* Two registered callbacks are called with a second committed value.
C22_Witness ==
    /\ lastOp.op \in ChangeOps
    /\ Len(lastOp.calls) = 2
    /\ lastOp.old # {}
    /\ signal[lastOp.object] # {}
    /\ lastOp.calls[2].val = signal[lastOp.object]

\* The last operation, started with signal lastOp.old and callback list
\* lastOp.before, left what signal_change(clear, set) leaves from there: the
\* same signal, the same handlers called with the same value, and the list
\* that those handlers' return values leave.
EffectOfChange(clear, set) ==
    LET o == lastOp.object
        changed == (lastOp.old \ clear) \cup set
        kept == {i \in 1..Len(lastOp.before) : ~lastOp.calls[i].ret}
    IN  /\ signal[o] = changed
        /\ IF changed = lastOp.old
           THEN lastOp.calls = <<>> /\ signal_callbacks[o] = lastOp.before
           ELSE /\ Len(lastOp.calls) = Len(lastOp.before)
                /\ \A i \in 1..Len(lastOp.before) :
                       /\ lastOp.calls[i].cb = lastOp.before[i]
                       /\ lastOp.calls[i].val = changed
                /\ Len(signal_callbacks[o]) = Cardinality(kept)
                /\ \A i \in kept :
                       signal_callbacks[o][Cardinality({j \in kept : j <= i})]
                           = lastOp.before[i]

\* C26: signal_set(bits) has the effect of signal_change(empty, bits) and
\* signal_clear(bits) the effect of signal_change(bits, empty): the same
\* resulting signal, the same callbacks invoked with the same value, the same
\* resulting callback list.
C26_SetClearAsChange ==
    /\ lastOp.op = "signal_set" =>
           \E bits \in Signal :
               /\ lastOp.clear = EMPTY /\ lastOp.set = bits
               /\ EffectOfChange(EMPTY, bits)
    /\ lastOp.op = "signal_clear" =>
           \E bits \in Signal :
               /\ lastOp.clear = bits /\ lastOp.set = EMPTY
               /\ EffectOfChange(bits, EMPTY)

\* signal_set has added a bit to a signal that had another, with two callbacks
\* registered, of which one stays.
C26_Witness ==
    /\ lastOp.op = "signal_set"
    /\ lastOp.old # {}
    /\ lastOp.set \cap lastOp.old = {}
    /\ Len(lastOp.before) = 2
    /\ Len(signal_callbacks[lastOp.object]) = 1

\* C28: signal_change is idempotent on the signal: applying
\* signal_change(clear, set) twice in a row leaves the signal that applying
\* it once leaves, from any starting signal and for any clear and set.
C28_Idempotent ==
    setter.pc = "twice" => signal[setter.object] = setter.once

\* The call has been applied twice, with clear and set sharing a bit, and its
\* first application changed the signal.
C28_Witness ==
    /\ setter.pc = "twice"
    /\ (setter.clear \cap setter.set) # {}
    /\ setter.clear # setter.set
    /\ setter.once # setter.start
    /\ signal[setter.object] = setter.once
    /\ lastOp.before # <<>>

\* C29: abandoning a wait_signal after it has registered its callback does
\* not remove the callback. The leftover callback is called by every later
\* change of the signal; the first change whose signal intersects its target
\* makes it invoke the waker, once, and removes it; a change whose signal
\* does not intersect the target wakes nobody and leaves it registered, so it
\* stays for as long as no such change comes; once removed it is never called
\* again.
C29_AbandonedCallback ==
    [][\A t \in DOMAIN pc :
        LET o == future[t].object
            left == {i \in 1..Len(signal_callbacks[o]) : signal_callbacks[o][i].task = t}
            callsOf(cb) == {j \in 1..Len(lastOp'.calls) : lastOp'.calls[j].cb = cb}
            stays(cb) == \E k \in 1..Len(signal_callbacks'[o]) : signal_callbacks'[o][k] = cb
        IN  /\ (pc[t] = "idle" /\ pc'[t] = "dropped") =>
                  /\ signal_callbacks' = signal_callbacks
                  /\ runnable' = runnable
                  /\ lastOp'.calls = <<>>
            /\ (pc[t] = "dropped" /\ pc'[t] = "dropped") =>
                  \A i \in left :
                      LET cb == signal_callbacks[o][i]
                      IN  IF signal'[o] # signal[o] /\ (signal'[o] \cap cb.signal) # {}
                          THEN /\ Cardinality(callsOf(cb)) = 1
                               /\ \A j \in callsOf(cb) : lastOp'.calls[j].wake
                               /\ ~stays(cb)
                               /\ cb.id \in retired'
                          ELSE /\ \A j \in callsOf(cb) : ~lastOp'.calls[j].wake
                               /\ stays(cb)
            /\ \A j \in 1..Len(lastOp'.calls) : lastOp'.calls[j].cb.id \notin retired]_vars

\* After the task dropped its future, a change that did not intersect the
\* target left the callback registered, and the next change, which does,
\* has made it invoke the waker and has removed it.
C29_Witness ==
    \E t \in DOMAIN pc :
        /\ pc[t] = "dropped"
        /\ lastOp.op = "signal_set"
        /\ lastOp.old # {}
        /\ Len(lastOp.calls) = 1
        /\ lastOp.calls[1].cb.task = t
        /\ lastOp.calls[1].wake
        /\ (lastOp.old \cap lastOp.calls[1].cb.signal) = {}
        /\ signal_callbacks[lastOp.object] = <<>>
        /\ runnable[t]

Ctors == {"new", "with_signal", "with_name", "with"}

\* C24: KoIDs are unique and increasing. Every construction, by any of the
\* constructors and concurrent ones included, gets its id from the one
\* counter KOID that starts at 1024: the ids handed out so far are exactly
\* the numbers from 1024 up to the counter, no two constructions have the
\* same id, and an object whose construction was called after another
\* object's had returned has the larger id.
C24_KoIDs ==
    LET fetching == {th \in DOMAIN pc : pc[th] = "build"}
        built == {id[o] : o \in DOMAIN id}
        fetched == {future[th].id : th \in fetching}
    IN  /\ \A o1, o2 \in DOMAIN id : o1 # o2 => id[o1] # id[o2]
        /\ \A t1, t2 \in fetching : t1 # t2 => future[t1].id # future[t2].id
        /\ built \cap fetched = {}
        /\ \A k \in built \cup fetched : k >= 1024
        /\ built \cup fetched = FirstKoID..(KOID - 1)
        /\ lastOp.op \in Ctors =>
               \A o \in 1..lastOp.completed : id[lastOp.object] > id[o]

\* Two constructions overlapped and the one that took its id first returned
\* last; then a third object, called after both had returned, was built.
C24_Witness ==
    /\ lastOp.op \in Ctors
    /\ lastOp.completed >= 2
    /\ \E o1, o2 \in DOMAIN id : o1 < o2 /\ id[o1] > id[o2]

\* C30: each constructor yields an object with an empty callback list and
\* invokes no callback: new() gives the empty name and the empty signal,
\* with_signal(s) the empty name and signal s, with_name(n) name n and the
\* empty signal, with(n, s) name n and signal s.
C30_Constructors ==
    lastOp.op \in Ctors =>
        LET o == lastOp.object
        IN  /\ signal_callbacks[o] = <<>>
            /\ lastOp.calls = <<>>
            /\ \A th \in DOMAIN runnable : ~runnable[th]
            /\ lastOp.op = "new" => name[o] = <<>> /\ signal[o] = {}
            /\ lastOp.op = "with_signal" => name[o] = <<>> /\ signal[o] = lastOp.set
            /\ lastOp.op = "with_name" => name[o] = lastOp.n /\ signal[o] = {}
            /\ lastOp.op = "with" => name[o] = lastOp.n /\ signal[o] = lastOp.set

\* with(n, s) has returned an object with a name and a signal, after objects
\* built by other constructors.
C30_Witness ==
    /\ lastOp.op = "with"
    /\ lastOp.object >= 2
    /\ name[lastOp.object] = <<"a">>
    /\ signal[lastOp.object] = {READABLE}
    /\ name[1] = <<>>
    /\ signal[1] = {READABLE}

\* C25: for an object that does not override them, get_child(id) returns
\* the error WRONG_TYPE for every id, peer() the error NOT_SUPPORTED,
\* related_koid() returns 0 and allowed_signals() returns USER_ALL; each
\* returns its value and leaves the object's signal, name and callback list
\* as they were.
C25_DefaultMethods ==
    [][LET op == lastOp'.op
       IN  /\ op = "get_child" => lastOp'.result = [err |-> "WRONG_TYPE"]
           /\ op = "peer" => lastOp'.result = [err |-> "NOT_SUPPORTED"]
           /\ op = "related_koid" => lastOp'.result = 0
           /\ op = "allowed_signals" => lastOp'.result = USER_ALL
           /\ op \in {"get_child", "peer", "related_koid", "allowed_signals"} =>
                  /\ signal' = signal
                  /\ name' = name
                  /\ signal_callbacks' = signal_callbacks
                  /\ lastOp'.calls = <<>>]_vars

\* get_child has returned on an object that has a signal, a name and
\* callbacks.
C25_Witness ==
    /\ lastOp.op = "get_child"
    /\ lastOp.result = [err |-> "WRONG_TYPE"]
    /\ signal[lastOp.object] # {}
    /\ name[lastOp.object] # <<>>
    /\ Len(signal_callbacks[lastOp.object]) = 2

\* C27: signal() returns the object's currently stored signal and has no side
\* effect: it invokes no callback and leaves the signal, the name and the
\* callback list unchanged.
C27_SignalRead ==
    [][lastOp'.op = "signal" =>
           /\ lastOp'.result = signal[lastOp'.object]
           /\ lastOp'.calls = <<>>
           /\ runnable' = runnable
           /\ signal' = signal
           /\ name' = name
           /\ signal_callbacks' = signal_callbacks]_vars

\* signal() has returned both bits of an object that has a name and callbacks.
C27_Witness ==
    /\ lastOp.op = "signal"
    /\ lastOp.result = {READABLE, WRITABLE}
    /\ signal[lastOp.object] = {READABLE, WRITABLE}
    /\ name[lastOp.object] = <<"b">>
    /\ Len(signal_callbacks[lastOp.object]) = 1

\* The operations that read or write an object's inner state.
AccessOps == {"signal", "name", "set_name", "signal_change", "signal_set", "signal_clear",
              "add_signal_callback"}

\* Thread th is between the acquisition of the lock and its return.
Inside(th) == pc[th] \in {"locked", "return"}

\* C23: an object's signal and callback list (and name) are read or written
\* only while that object's lock is held, by the operation that holds it; at
\* most one operation holds a given object's lock at any time; and the lock
\* is released when the operation returns, so that no operation that has
\* returned leaves the object locked.
C23_LockDiscipline ==
    /\ [](/\ \A o \in DOMAIN lock :
                Cardinality({th \in DOMAIN pc : Inside(th) /\ future[th].object = o}) <= 1
          /\ \A th \in DOMAIN pc : Inside(th) => lock[future[th].object] = th
          /\ \A th \in DOMAIN pc : ~Inside(th) => \A o \in DOMAIN lock : lock[o] # th
          /\ lastOp.op \in AccessOps =>
                \E th \in DOMAIN pc :
                    /\ pc[th] = "return"
                    /\ future[th].op = lastOp.op
                    /\ future[th].object = lastOp.object
                    /\ lock[lastOp.object] = th)
    /\ [][\A o \in DOMAIN lock :
            (signal'[o] # signal[o] \/ signal_callbacks'[o] # signal_callbacks[o]
                \/ name'[o] # name[o]) =>
                \E th \in DOMAIN pc :
                    /\ lock[o] = th /\ lock'[o] = th
                    /\ pc[th] = "locked" /\ future[th].object = o]_vars

\* One thread's signal_change has called a callback and still holds the lock
\* while the other thread, inside a call on the same object, waits for it.
C23_Witness ==
    \E t1, t2 \in DOMAIN pc :
        /\ t1 # t2
        /\ pc[t1] = "return"
        /\ pc[t2] = "lock"
        /\ future[t1].object = future[t2].object
        /\ lock[future[t1].object] = t1
        /\ lastOp.op = "signal_change"
        /\ lastOp.calls # <<>>

\* C31: name() returns the text given to the most recent set_name, or the
\* construction name if there was none, and set_name changes only the name.
\* Step by step: set_name(n) makes n the name, leaves the signal and the
\* callback list unchanged and calls no handler; no other operation changes
\* the name; and name() returns the stored name, so right after set_name(n)
\* it returns n.
C31_NameFrame ==
    [][/\ lastOp'.op = "set_name" =>
              /\ name'[lastOp'.object] = lastOp'.n
              /\ \A o \in DOMAIN name : o # lastOp'.object => name'[o] = name[o]
              /\ signal' = signal
              /\ signal_callbacks' = signal_callbacks
              /\ lastOp'.calls = <<>>
              /\ runnable' = runnable
       /\ lastOp'.op # "set_name" => name' = name
       /\ lastOp'.op = "name" => lastOp'.result = name[lastOp'.object]
       /\ (lastOp.op = "set_name" /\ lastOp'.op = "name"
              /\ lastOp.object = lastOp'.object) => lastOp'.result = lastOp.n]_vars

\* name() has returned the name that a set_name gave to an object with a
\* signal and a callback.
C31_Witness ==
    /\ lastOp.op = "name"
    /\ lastOp.result = <<"a">>
    /\ name[lastOp.object] = <<"a">>
    /\ signal[lastOp.object] # {}
    /\ Len(signal_callbacks[lastOp.object]) = 1

\* C33: whenever wait_signal(target) resolves, the value it returns
\* intersects target and is a value the object's stored signal held during
\* the resolving poll: the poll's read takes the signal stored at that
\* instant, nothing changes what the poll has read, only a poll under way
\* resolves the wait, and it resolves with the value it read, which
\* intersects target.
C33_ResolvesWithHeldValue ==
    /\ [](\A t \in DOMAIN pc :
              pc[t] = "ready" => (output[t] \cap future[t].signal) # {})
    /\ [][\A t \in DOMAIN pc :
            /\ (pc[t] = "idle" /\ pc'[t] = "polling") =>
                   current_signal'[t] = signal[future[t].object]
            /\ (pc[t] = "polling" /\ pc'[t] = "polling") =>
                   current_signal'[t] = current_signal[t]
            /\ (pc[t] # "ready" /\ pc'[t] = "ready") =>
                   /\ pc[t] = "polling"
                   /\ output'[t] = current_signal[t]
                   /\ (output'[t] \cap future[t].signal) # {}
                   /\ future'[t] = future[t]]_vars

\* A poll after the first has resolved the wait with both bits, of which the
\* object has lost one since the poll read it.
C33_Witness ==
    \E t \in DOMAIN pc :
        /\ pc[t] = "ready"
        /\ lastOp.op = "poll"
        /\ lastOp.task = t
        /\ ~lastOp.first
        /\ output[t] = {READABLE, WRITABLE}
        /\ future[t].signal = {READABLE}
        /\ signal[future[t].object] = {READABLE}

\* The callbacks of wait_signal that task t has in the objects' lists, as
\* pairs of object and position, in the lists cbs.
WaitStored(cbs, t) ==
    {<<o, i>> \in UNION {{o} \X (1..Len(cbs[o])) : o \in DOMAIN cbs} :
        cbs[o][i].kind = "wait" /\ cbs[o][i].task = t}

\* C34: the waker of one wait_signal instance is invoked at most once over
\* the instance's life. An instance has at most one callback stored; the
\* call that invokes the waker is that callback's first call to return true
\* and retires it, at its registration or in a sweep; after it the instance
\* has no callback stored and, its first flag being false, registers none
\* again; and a retired callback is never called.
C34_WakesAtMostOnce ==
    /\ [](\A t \in DOMAIN pc : Cardinality(WaitStored(signal_callbacks, t)) <= 1)
    /\ [][\A j \in 1..Len(lastOp'.calls) :
            LET c == lastOp'.calls[j]
            IN  /\ c.cb.id \notin retired
                /\ (c.cb.kind = "wait" /\ c.wake) =>
                       /\ c.ret
                       /\ c.cb.id \in retired'
                       /\ WaitStored(signal_callbacks', c.cb.task) = {}
                       /\ ~future'[c.cb.task].first
                       /\ future'[c.cb.task].inst = future[c.cb.task].inst
                       /\ Cardinality({k \in 1..Len(lastOp'.calls) :
                              lastOp'.calls[k].cb.task = c.cb.task /\ lastOp'.calls[k].wake}) = 1]_vars

\* The callback of the task's second wait, left registered by a transition
\* that did not intersect its target, invokes the waker in a later sweep.
C34_Witness ==
    \E t \in DOMAIN pc :
        /\ lastOp.op \in ChangeOps
        /\ lastOp.old # {}
        /\ Len(lastOp.calls) = 1
        /\ lastOp.calls[1].cb.task = t
        /\ lastOp.calls[1].wake
        /\ future[t].inst = 2
        /\ pc[t] = "idle"
        /\ signal_callbacks[lastOp.object] = <<>>

\* C35: when one signal transition satisfies several deferred
\* send_signal_to_port_async registrations on the object, their packets are
\* pushed to the port within that transition, after the packets already
\* there, in the order in which the registrations were made, each with
\* observed equal to the new signal.
C35_PacketsInRegistrationOrder ==
    [][lastOp'.op \in ChangeOps =>
        LET calls == lastOp'.calls
            fired == {j \in 1..Len(calls) :
                         /\ calls[j].cb.kind = "port"
                         /\ (signal'[lastOp'.object] \cap calls[j].cb.signal) # {}}
            rank(j) == Cardinality({k \in fired : calls[k].cb.id <= calls[j].cb.id})
        IN  /\ Len(port') = Len(port) + Cardinality(fired)
            /\ \A i \in 1..Len(port) : port'[i] = port[i]
            /\ \A j \in fired :
                   port'[Len(port) + rank(j)] =
                       [key |-> calls[j].cb.key, status |-> "OK",
                        trigger |-> calls[j].cb.signal,
                        observed |-> signal'[lastOp'.object],
                        count |-> 1, timestamp |-> 0]]_vars

\* One signal_set has satisfied two registrations with different masks: the
\* port holds the packet of the first registration, then that of the second.
C35_Witness ==
    /\ lastOp.op = "signal_set"
    /\ Len(lastOp.calls) = 2
    /\ lastOp.calls[1].cb.signal # lastOp.calls[2].cb.signal
    /\ signal_callbacks[lastOp.object] = <<>>
    /\ Len(port) = 2
    /\ port[1].key = 1
    /\ port[2].key = 2
    /\ port[1].observed = port[2].observed

\* The calls of handlers that a step makes.
StepCalls == IF lastOp' # lastOp THEN lastOp'.calls ELSE <<>>

\* C32: between operations, every callback stored in an object's list was
\* last invoked with the object's current signal and returned false on it:
\* a step that calls a callback it leaves stored called it with the signal
\* the object has after the step and got false, and a step that does not
\* call a stored callback found it stored and leaves the object's signal as
\* it was.  In particular no stored callback of wait_signal, wait_signal_many
\* or send_signal_to_port_async has a mask that intersects the current signal.
C32_StoredReturnedFalseOnCurrent ==
    /\ [](\A o \in DOMAIN signal_callbacks :
            \A i \in 1..Len(signal_callbacks[o]) :
                signal_callbacks[o][i].kind \in {"wait", "port"}
                    => (signal_callbacks[o][i].signal \cap signal[o]) = {})
    /\ [][\A o \in DOMAIN signal_callbacks' :
            \A i \in 1..Len(signal_callbacks'[o]) :
                LET cb == signal_callbacks'[o][i]
                    mine == {j \in 1..Len(StepCalls) : StepCalls[j].cb = cb}
                IN  IF mine # {}
                    THEN /\ lastOp'.object = o
                         /\ \A j \in mine : /\ StepCalls[j].val = signal'[o]
                                            /\ ~StepCalls[j].ret
                    ELSE /\ o \in DOMAIN signal_callbacks
                         /\ \E k \in 1..Len(signal_callbacks[o]) :
                                signal_callbacks[o][k] = cb
                         /\ signal'[o] = signal[o]]_vars

\* signal_set(READABLE) on O2 has called a stored callback of wait_signal_many
\* that waits for WRITABLE and a stored callback of another caller; both
\* returned false on the new signal and are still stored.
C32_Witness ==
    /\ lastOp.op = "signal_set"
    /\ lastOp.object = "O2"
    /\ signal["O2"] = {READABLE}
    /\ Len(lastOp.calls) = 2
    /\ Len(signal_callbacks["O2"]) = 2
    /\ {signal_callbacks["O2"][i].kind : i \in 1..2} = {"wait", "user"}
    /\ \A j \in 1..2 : lastOp.calls[j].val = {READABLE} /\ ~lastOp.calls[j].ret
    /\ signal_callbacks["O1"] # <<>>

\* C36: an object's stored signal is changed only by signal_set,
\* signal_clear and signal_change called on that object; no other operation
\* and no operation on another object changes it, and an operation on one
\* object neither invokes nor removes (nor adds) a callback stored in
\* another object's list.
C36_OwnSignalAndCallbacks ==
    [][\A o \in DOMAIN signal :
          /\ signal'[o] # signal[o]
                => /\ lastOp' # lastOp
                   /\ lastOp'.op \in ChangeOps
                   /\ lastOp'.object = o
          /\ (lastOp' = lastOp \/ lastOp'.object # o)
                => /\ signal'[o] = signal[o]
                   /\ signal_callbacks'[o] = signal_callbacks[o]
                   /\ \A j \in 1..Len(StepCalls) :
                          \A k \in 1..Len(signal_callbacks[o]) :
                              StepCalls[j].cb # signal_callbacks[o][k]]_vars

\* signal_set on O1 has called and removed O1's callback while O2 stores
\* callbacks and another signal.
C36_Witness ==
    /\ lastOp.op = "signal_set"
    /\ lastOp.object = "O1"
    /\ lastOp.calls # <<>>
    /\ signal_callbacks["O1"] = <<>>
    /\ signal["O1"] = {READABLE}
    /\ signal["O2"] = EMPTY
    /\ signal_callbacks["O2"] # <<>>

\* A call of `op` is under way or over.
Called(op) == cont.pc # "none" /\ cont.op = op

\* C37: map_cont checks, before it maps anything, that start_vaddr,
\* start_paddr and size are all page-aligned: a call with any of the three
\* not aligned to the page size fails its assertion and maps no page.
C37_AlignmentChecked ==
    (/\ Called("map_cont")
     /\ ~(/\ is_aligned(cont.start_vaddr)
          /\ is_aligned(cont.start_paddr)
          /\ is_aligned(cont.size)))
        => /\ cont.pc = "panicked"
           /\ page_table = cont.table0

\* A call of unmap_cont with page-aligned start_vaddr and size.
AlignedUnmap ==
    /\ Called("unmap_cont")
    /\ is_aligned(cont.start_vaddr)
    /\ is_aligned(cont.size)

NoStraddle(table, start, end) ==
    \A m \in table :
        (m.vaddr < end /\ start < m.vaddr + m.size)
            => (start <= m.vaddr /\ m.vaddr + m.size <= end)

============================================================================
